---- MODULE Spec2Model ----
(***************************************************************************)
(* Model of juniper's input-value algebra (juniper/src/ast.rs):            *)
(* InputValue, its constant folding (into_const), its position-blind       *)
(* equality (unlocated_eq) and its variable discovery                      *)
(* (referenced_variables).  The operations are pure functions; each is an  *)
(* operator computed as the code computes it, and each specification      *)
(* draws the inputs of one call from bounded sets and performs the call.   *)
(***************************************************************************)
EXTENDS Integers, Sequences, FiniteSets, TLC

VARIABLES
    pc,      \* "call": the inputs are chosen, "ret": the call has returned
    op,      \* the operation that was called, "none" before the call
    self,    \* the receiver of the call (for an associated function of a
             \* trait, the implementing type)
    values,  \* the `values: &Variables<S>` argument of into_const
    other,   \* the `other: &Self` argument of unlocated_eq
    key,     \* the `key: &str` argument of Arguments::get
    ret      \* the value the call returned

vars == <<pc, op, self, values, other, key, ret>>

(***************************************************************************)
(* Bounds of the input domains.                                            *)
(***************************************************************************)
\* Largest number of nodes (leaves, lists and objects) of a generated value.
MaxNodes == 3

\* Largest length of a generated list or object in an unlocated_eq call,
\* and of a generated argument list.
MaxLen == 2

\* Largest number of list wrappers of a generated type literal.
MaxDepth == 2

(***************************************************************************)
(* Option<T>                                                               *)
(***************************************************************************)
None == [tag |-> "None"]

Some(x) == [tag |-> "Some", val |-> x]

is_some(o) == o.tag = "Some"

(***************************************************************************)
(* Spanning<T>: a payload with its source span.  Span 0 is the span of     *)
(* Spanning::unlocated.                                                    *)
(***************************************************************************)
NoSpan == 0

Spanning(x, sp) == [item |-> x, span |-> sp]

unlocated(x) == Spanning(x, NoSpan)

\* Spanning::map, s.map(f) where fx is f(s.item): the transformed payload
\* under the span of s.
spanning_map(s, fx) == Spanning(fx, s.span)

\* Spanning::and_then, s.and_then(f) where r is the Option f(s.item): as
\* map when f yields a payload, None when it yields nothing.
spanning_and_then(s, r) ==
    IF is_some(r) THEN Some(Spanning(r.val, s.span)) ELSE None

(***************************************************************************)
(* InputValue<S>                                                           *)
(***************************************************************************)
Null == [tag |-> "Null"]

Scalar(s) == [tag |-> "Scalar", s |-> s]

Enum(n) == [tag |-> "Enum", name |-> n]

Variable(n) == [tag |-> "Variable", name |-> n]

\* l: a sequence of Spanning<InputValue>
List(l) == [tag |-> "List", items |-> l]

\* o: a sequence of pairs <<Spanning<String>, Spanning<InputValue>>>
Object(o) == [tag |-> "Object", fields |-> o]

null == Null

\* InputValue::list: every element unlocated.
list(l) == List([i \in 1..Len(l) |-> unlocated(l[i])])

parsed_list(l) == List(l)

parsed_object(o) == Object(o)

\* The scalar representation S: an integer or a string.
IntScalar(i) == [k |-> "Int", v |-> i]

StrScalar(s) == [k |-> "String", v |-> s]

(***************************************************************************)
(* Variables<S>: a map from names to InputValues, a function whose domain  *)
(* is the set of bound names.                                              *)
(***************************************************************************)
\* HashMap::get(..).cloned()
get_cloned(vals, name) ==
    IF name \in DOMAIN vals THEN Some(vals[name]) ELSE None

(***************************************************************************)
(* InputValue::into_const                                                  *)
(***************************************************************************)
RECURSIVE into_const(_, _)

\* Option::unwrap_or_else(Self::null)
unwrap_or_null(o) == IF is_some(o) THEN o.val ELSE null

\* Option::map(|sv| (sk, sv)): the resolved value with its key.
keyed(sk, osv) == IF is_some(osv) THEN Some(<<sk, osv.val>>) ELSE None

\* into_const_list with filter_map in place of map: unresolved elements vanish.
into_const_list_dropping(l, vals) ==
    LET folded == [i \in 1..Len(l) |->
            spanning_and_then(l[i], into_const(l[i].item, vals))]
        kept == SelectSeq(folded, is_some)
    IN  Some(List([i \in 1..Len(kept) |-> kept[i].val]))

\* into_const_list that returns the list as it is, its elements not folded.
into_const_list_shallow(l, vals) == Some(List(l))

\* into_const_list collecting into an Option: one unresolved element makes
\* the whole list unresolved.
into_const_list_strict(l, vals) ==
    IF \A i \in 1..Len(l) : is_some(into_const(l[i].item, vals))
    THEN Some(List([i \in 1..Len(l) |->
            spanning_map(l[i], into_const(l[i].item, vals).val)]))
    ELSE None

\* into_const_list that wraps every folded element anew, without a span.
into_const_list_unlocated(l, vals) ==
    Some(List([i \in 1..Len(l) |->
        unlocated(unwrap_or_null(into_const(l[i].item, vals)))]))

\* The List arm: every element is mapped, an unresolved one becomes Null.
into_const_list(l, vals) ==
    Some(List([i \in 1..Len(l) |->
        spanning_map(l[i], unwrap_or_null(into_const(l[i].item, vals)))]))

\* into_const_object with map in place of filter_map: an unresolved field
\* stays, with the value Null.
into_const_object_nulling(o, vals) ==
    Some(Object([i \in 1..Len(o) |->
        <<o[i][1],
          spanning_map(o[i][2], unwrap_or_null(into_const(o[i][2].item, vals)))>>]))

\* into_const_object that also leaves out the fields whose value is Null.
into_const_object_skip_null(o, vals) ==
    LET folded == [i \in 1..Len(o) |->
            keyed(o[i][1],
                spanning_and_then(o[i][2], into_const(o[i][2].item, vals)))]
        kept == SelectSeq(folded, LAMBDA f : is_some(f) /\ f.val[2].item # Null)
    IN  Some(Object([i \in 1..Len(kept) |-> kept[i].val]))

\* into_const_object collecting into an Option: one unresolved field makes
\* the whole object unresolved.
into_const_object_strict(o, vals) ==
    IF \A i \in 1..Len(o) : is_some(into_const(o[i][2].item, vals))
    THEN Some(Object([i \in 1..Len(o) |->
            <<o[i][1],
              spanning_map(o[i][2], into_const(o[i][2].item, vals).val)>>]))
    ELSE None

\* The Object arm: filter_map keeps the fields whose value resolves.
into_const_object(o, vals) ==
    LET folded == [i \in 1..Len(o) |->
            keyed(o[i][1],
                spanning_and_then(o[i][2], into_const(o[i][2].item, vals)))]
        kept == SelectSeq(folded, is_some)
    IN  Some(Object([i \in 1..Len(kept) |-> kept[i].val]))

\* into_const_variable that resolves an unbound name to Null.
into_const_variable_defaulting(name, vals) ==
    Some(IF name \in DOMAIN vals THEN vals[name] ELSE null)

\* into_const_variable that looks a bound variable up once more.
into_const_variable_chasing(name, vals) ==
    IF name \in DOMAIN vals /\ vals[name].tag = "Variable"
    THEN get_cloned(vals, vals[name].name)
    ELSE get_cloned(vals, name)

\* The Variable arm.
into_const_variable(name, vals) == get_cloned(vals, name)

into_const(v, vals) ==
    CASE v.tag = "Variable" -> into_const_variable(v.name, vals)
      [] v.tag = "List" -> into_const_list(v.items, vals)
      [] v.tag = "Object" -> into_const_object(v.fields, vals)
      [] OTHER -> Some(v)

(***************************************************************************)
(* InputValue::referenced_variables                                        *)
(***************************************************************************)RECURSIVE referenced_variables(_), flat_map_vars(_)

RECURSIVE flat_map_vars_dedup(_)

\* flat_map_vars that lists a name once, at its first occurrence.
flat_map_vars_dedup(spannings) ==
    IF spannings = <<>> THEN <<>>
    ELSE LET front == flat_map_vars_dedup(
                    SubSeq(spannings, 1, Len(spannings) - 1))
             last == referenced_variables(spannings[Len(spannings)].item)
         IN  front \o SelectSeq(last,
                LAMBDA n : \A i \in 1..Len(front) : front[i] # n)


\* flat_map(|v| v.item.referenced_variables()).collect() over the payloads.
flat_map_vars(spannings) ==
    IF spannings = <<>> THEN <<>>
    ELSE referenced_variables(Head(spannings).item)
             \o flat_map_vars(Tail(spannings))

referenced_variables(v) ==
    CASE v.tag = "Variable" -> <<v.name>>
      [] v.tag = "List" -> flat_map_vars(v.items)
      [] v.tag = "Object" ->
            flat_map_vars([i \in 1..Len(v.fields) |-> v.fields[i][2]])
      [] OTHER -> <<>>

(***************************************************************************)
(* InputValue::unlocated_eq                                                *)
(***************************************************************************)
RECURSIVE unlocated_eq(_, _)

Min(m, n) == IF m <= n THEN m ELSE n

\* S: PartialEq, `s1 == s2` on the scalar representation.
scalar_eq(s1, s2) == s1 = s2

\* is_name_pair that lets an Enum pair with a Variable.
is_name_pair_mixed(v1, v2) ==
    /\ v1.tag \in {"Enum", "Variable"}
    /\ v2.tag \in {"Enum", "Variable"}

\* The (Enum, Enum) | (Variable, Variable) pattern.
is_name_pair(v1, v2) ==
    \/ v1.tag = "Enum" /\ v2.tag = "Enum"
    \/ v1.tag = "Variable" /\ v2.tag = "Variable"

\* unlocated_eq_list comparing the elements with their spans (v1 == v2 on
\* the Spanning) instead of their payloads.
unlocated_eq_list_spanned(l1, l2) ==
    \A i \in 1..Min(Len(l1), Len(l2)) :
        /\ l1[i].span = l2[i].span
        /\ unlocated_eq(l1[i].item, l2[i].item)

\* The List arm: l1.iter().zip(l2.iter()).all(..); zip stops at the end of
\* the shorter list.
unlocated_eq_list(l1, l2) ==
    \A i \in 1..Min(Len(l1), Len(l2)) : unlocated_eq(l1[i].item, l2[i].item)

\* unlocated_eq_object pairing the entries by position, as the List arm does.
unlocated_eq_object_positional(o1, o2) ==
    /\ Len(o1) = Len(o2)
    /\ \A i \in 1..Len(o1) :
        /\ o1[i][1].item = o2[i][1].item
        /\ unlocated_eq(o1[i][2].item, o2[i][2].item)

\* unlocated_eq_object without the comparison of the lengths.
unlocated_eq_object_subset(o1, o2) ==
    \A i \in 1..Len(o1) :
        \E j \in 1..Len(o2) :
            /\ o1[i][1].item = o2[j][1].item
            /\ unlocated_eq(o1[i][2].item, o2[j][2].item)

\* The Object arm.
unlocated_eq_object(o1, o2) ==
    /\ Len(o1) = Len(o2)
    /\ \A i \in 1..Len(o1) :
        \E j \in 1..Len(o2) :
            /\ o1[i][1].item = o2[j][1].item
            /\ unlocated_eq(o1[i][2].item, o2[j][2].item)

unlocated_eq(v1, v2) ==
    CASE v1.tag = "Null" /\ v2.tag = "Null" -> TRUE
      [] v1.tag = "Scalar" /\ v2.tag = "Scalar" -> scalar_eq(v1.s, v2.s)
      [] is_name_pair(v1, v2) -> v1.name = v2.name
      [] v1.tag = "List" /\ v2.tag = "List" ->
            unlocated_eq_list(v1.items, v2.items)
      [] v1.tag = "Object" /\ v2.tag = "Object" ->
            unlocated_eq_object(v1.fields, v2.fields)
      [] OTHER -> FALSE

(***************************************************************************)
(* InputValue::to_object_value and InputValue::to_list_value               *)
(***************************************************************************)
\* IndexMap::insert on a map held as the sequence of its <<key, value>>
\* entries: a key the map holds keeps its place and takes the new value, a
\* new key is appended.
\* An insert that leaves the entry of a key that is there as it is.
index_map_insert_keeping(m, k, x) ==
    IF \E i \in 1..Len(m) : m[i][1] = k THEN m ELSE Append(m, <<k, x>>)

index_map_insert(m, k, x) ==
    IF \E i \in 1..Len(m) : m[i][1] = k
    THEN [i \in 1..Len(m) |-> IF m[i][1] = k THEN <<k, x>> ELSE m[i]]
    ELSE Append(m, <<k, x>>)

RECURSIVE index_map_collect(_, _)

\* .map(|(sk, sv)| (sk.item.as_str(), &sv.item)).collect() over the first n
\* entries of o.
index_map_collect(o, n) ==
    IF n = 0 THEN <<>>
    ELSE index_map_insert(index_map_collect(o, n - 1), o[n][1].item, o[n][2].item)

to_object_value(v) ==
    IF v.tag = "Object" THEN Some(index_map_collect(v.fields, Len(v.fields)))
    ELSE None

\* to_list_value that collects the elements back to front.
to_list_value_reversed(v) ==
    IF v.tag = "List"
    THEN Some([i \in 1..Len(v.items) |-> v.items[Len(v.items) + 1 - i].item])
    ELSE None

to_list_value(v) ==
    IF v.tag = "List" THEN Some([i \in 1..Len(v.items) |-> v.items[i].item])
    ELSE None

(***************************************************************************)
(* impl Display for InputValue.  The outcome of fmt is the text written    *)
(* and how the call ended: "ok", or "panic" on an arithmetic overflow.     *)
(***************************************************************************)
\* write!(f, ..) of the text t.
Written(t) == [status |-> "ok", text |-> t]

Panicked(t) == [status |-> "panic", text |-> t]

\* r1 followed by r2, which runs only when r1 ended ok (the `?`).
and_then(r1, r2) ==
    IF r1.status = "ok" THEN [status |-> r2.status, text |-> r1.text \o r2.text]
    ELSE r1

\* Display of the scalar representation: an integer as its digits, a string
\* between double quotes.
fmt_scalar(s) ==
    IF s.k = "Int" THEN Written(ToString(s.v)) ELSE Written("\"" \o s.v \o "\"")

\* `if i < len - 1 { write!(f, ", ")?; }` for the index i (from 0) of an
\* element; the unsigned len - 1 overflows when len is 0.
fmt_separator(i, len) ==
    IF len < 1 THEN Panicked("")
    ELSE IF i < len - 1 THEN Written(", ") ELSE Written("")

RECURSIVE fmt(_), fmt_list_from(_, _), fmt_object_from(_, _)

\* The iterations of the List arm's loop from index i (from 0) on.
fmt_list_from(l, i) ==
    IF i >= Len(l) THEN Written("")
    ELSE and_then(and_then(fmt(l[i + 1].item), fmt_separator(i, Len(l))),
                  fmt_list_from(l, i + 1))

\* fmt_list with `let last = v.len() - 1;` taken out of the loop.
fmt_list_hoisted(l) ==
    and_then(and_then(and_then(Written("["),
                               IF Len(l) < 1 THEN Panicked("") ELSE Written("")),
                      fmt_list_from(l, 0)),
             Written("]"))

\* fmt_list that writes the separator after every element.
fmt_list_trailing(l) ==
    LET each == [i \in 1..Len(l) |-> and_then(fmt(l[i].item), Written(", "))]
        all[i \in 0..Len(l)] ==
            IF i = 0 THEN Written("[") ELSE and_then(all[i - 1], each[i])
    IN  and_then(all[Len(l)], Written("]"))

\* The List arm.
fmt_list(l) == and_then(and_then(Written("["), fmt_list_from(l, 0)), Written("]"))

\* The iterations of the Object arm's loop from index i (from 0) on.
fmt_object_from(o, i) ==
    IF i >= Len(o) THEN Written("")
    ELSE and_then(
            and_then(and_then(Written(o[i + 1][1].item \o ": "),
                              fmt(o[i + 1][2].item)),
                     fmt_separator(i, Len(o))),
            fmt_object_from(o, i + 1))

\* The Object arm.
fmt_object(o) ==
    and_then(and_then(Written("{"), fmt_object_from(o, 0)), Written("}"))

fmt(v) ==
    CASE v.tag = "Null" -> Written("null")
      [] v.tag = "Scalar" -> fmt_scalar(v.s)
      [] v.tag = "Enum" -> Written(v.name)
      [] v.tag = "Variable" -> Written("$" \o v.name)
      [] v.tag = "List" -> fmt_list(v.items)
      [] v.tag = "Object" -> fmt_object(v.fields)

(***************************************************************************)
(* Type<N>: a type literal                                                 *)
(***************************************************************************)
Named(n) == [tag |-> "Named", name |-> n]

NonNullNamed(n) == [tag |-> "NonNullNamed", name |-> n]

\* Type::List(inner, hint); hint is the Option<usize> of the variant.
TypeList(t, hint) == [tag |-> "List", inner |-> t, hint |-> hint]

NonNullList(t, hint) == [tag |-> "NonNullList", inner |-> t, hint |-> hint]

\* Type::name
type_name(t) ==
    IF t.tag \in {"Named", "NonNullNamed"} THEN Some(t.name) ELSE None

RECURSIVE innermost_name(_)

\* innermost_name that unpacks one list only: l.name().unwrap_or_default().
innermost_name_one_level(t) ==
    IF t.tag \in {"Named", "NonNullNamed"} THEN t.name
    ELSE IF is_some(type_name(t.inner)) THEN type_name(t.inner).val ELSE ""

innermost_name(t) ==
    IF t.tag \in {"Named", "NonNullNamed"} THEN t.name
    ELSE innermost_name(t.inner)

RECURSIVE is_non_null(_)

\* is_non_null that asks the wrapped type when the type is a nullable list.
is_non_null_inner(t) ==
    CASE t.tag \in {"NonNullList", "NonNullNamed"} -> TRUE
      [] t.tag = "List" -> is_non_null(t.inner)
      [] OTHER -> FALSE

is_non_null(t) ==
    CASE t.tag \in {"NonNullList", "NonNullNamed"} -> TRUE
      [] t.tag \in {"List", "Named"} -> FALSE

RECURSIVE type_fmt(_)

\* type_fmt that renders a NonNullList as a List.
type_fmt_no_bang(t) ==
    CASE t.tag = "Named" -> Written(t.name)
      [] t.tag = "NonNullNamed" -> Written(t.name \o "!")
      [] OTHER ->
            and_then(and_then(Written("["), type_fmt(t.inner)), Written("]"))

\* impl Display for Type
type_fmt(t) ==
    CASE t.tag = "Named" -> Written(t.name)
      [] t.tag = "NonNullNamed" -> Written(t.name \o "!")
      [] t.tag = "List" ->
            and_then(and_then(Written("["), type_fmt(t.inner)), Written("]"))
      [] t.tag = "NonNullList" ->
            and_then(and_then(Written("["), type_fmt(t.inner)), Written("]!"))

(***************************************************************************)
(* Arguments: the entries <<name, value>> of an argument list, both        *)
(* spanned, in a Vec                                                       *)
(***************************************************************************)
Arguments(items) == [items |-> items]

\* Arguments::len
len(args) == Len(args.items)

\* get that takes the last entry of the name: .next_back().
get_last(args, k) ==
    LET filtered == SelectSeq(args.items, LAMBDA e : e[1].item = k)
        mapped == [i \in 1..Len(filtered) |-> filtered[i][2]]
    IN  IF mapped = <<>> THEN None ELSE Some(mapped[Len(mapped)])

\* Arguments::get: .iter().filter(name == key).map(value).next()
get(args, k) ==
    LET filtered == SelectSeq(args.items, LAMBDA e : e[1].item = k)
        mapped == [i \in 1..Len(filtered) |-> filtered[i][2]]
    IN  IF mapped = <<>> THEN None ELSE Some(Head(mapped))

(***************************************************************************)
(* Input domains                                                           *)
(***************************************************************************)
Names == {"a", "b"}

Keys == {"foo", "bar"}

\* The leaves the generated values are built from.
Atoms == {Null, Scalar(IntScalar(1)), Enum("a")} \cup {Variable(n) : n \in Names}

RECURSIVE ValuesOfSize(_), SeqsOfSize(_)

\* The sequences of values that have n nodes together.
SeqsOfSize(n) ==
    IF n = 0 THEN {<<>>}
    ELSE UNION {{<<x>> \o rest : x \in ValuesOfSize(k), rest \in SeqsOfSize(n - k)}
                    : k \in 1..n}

\* The values of exactly n nodes, built as InputValue::list and
\* InputValue::object build them (no spans); an object may repeat a key.
ValuesOfSize(n) ==
    IF n = 1 THEN Atoms \cup {list(<<>>), parsed_object(<<>>)}
    ELSE {list(s) : s \in SeqsOfSize(n - 1)}
         \cup UNION {{parsed_object([i \in 1..Len(s) |->
                            <<unlocated(ks[i]), unlocated(s[i])>>])
                        : ks \in [1..Len(s) -> Keys]}
                     : s \in SeqsOfSize(n - 1)}

RECURSIVE LocatedFrom(_, _)

\* A value as the parser delivers it from a text that starts at `base`: the
\* i-th element of a list carries span base + i, the i-th entry of an object
\* the spans base + 2i - 1 (key) and base + 2i (value).
LocatedFrom(v, base) ==
    CASE v.tag = "List" ->
            parsed_list([i \in 1..Len(v.items) |->
                Spanning(LocatedFrom(v.items[i].item, base), base + i)])
      [] v.tag = "Object" ->
            parsed_object([i \in 1..Len(v.fields) |->
                <<Spanning(v.fields[i][1].item, base + 2 * i - 1),
                  Spanning(LocatedFrom(v.fields[i][2].item, base), base + 2 * i)>>])
      [] OTHER -> v

Located(v) == LocatedFrom(v, 0)

\* {foo: $a, bar: [$b, 1]}
ScenarioLiteral ==
    parsed_object(<<
        <<unlocated("foo"), unlocated(Variable("a"))>>,
        <<unlocated("bar"),
          unlocated(list(<<Variable("b"), Scalar(IntScalar(1))>>))>> >>)

Unlocateds == UNION {ValuesOfSize(n) : n \in 1..MaxNodes} \cup {ScenarioLiteral}

ConstInputs == Unlocateds \cup {Located(v) : v \in Unlocateds}

\* The values a name can be bound to.
BoundValues == {Scalar(StrScalar("hi")), Null, Variable("b")}

Bindings == UNION {[D -> BoundValues] : D \in SUBSET Names}

(***************************************************************************)
(* A call of into_const                                                    *)
(***************************************************************************)
InitConst ==
    /\ pc = "call"
    /\ op = "none"
    /\ self \in ConstInputs
    /\ values \in Bindings
    /\ other = Null
    /\ key = ""
    /\ ret = None

\* self.into_const(&values): the map is borrowed, the receiver consumed.
IntoConst ==
    /\ pc = "call"
    /\ ret' = into_const(self, values)
    /\ pc' = "ret"
    /\ op' = "into_const"
    /\ UNCHANGED <<self, values, other, key>>

NextConst == IntoConst

SpecConst == InitConst /\ [][NextConst]_vars

(***************************************************************************)
(* A call of unlocated_eq                                                  *)
(***************************************************************************)
\* The sequences over S of length at most n.
SeqsUpTo(S, n) == UNION {[1..k -> S] : k \in 0..n}

EqLeaves ==
    {Null} \cup {Scalar(IntScalar(i)) : i \in {1, 2}}
           \cup {Enum(n) : n \in Names} \cup {Variable(n) : n \in Names}

\* The elements and field values of the compared lists and objects.
EqElems ==
    {Scalar(IntScalar(1)), Scalar(IntScalar(2)), list(<<Scalar(IntScalar(1))>>)}

EqLists == {list(l) : l \in SeqsUpTo(EqElems, MaxLen)}

EqObjects ==
    {parsed_object([i \in 1..Len(o) |->
            <<unlocated(o[i][1]), unlocated(o[i][2])>>])
        : o \in SeqsUpTo(Keys \X EqElems, MaxLen)}

EqValues == EqLeaves \cup EqLists \cup EqObjects

InitEq ==
    /\ pc = "call"
    /\ op = "none"
    /\ self \in EqValues \cup {Located(v) : v \in EqValues}
    /\ other \in EqValues \cup {LocatedFrom(v, 1) : v \in EqValues}
    /\ values = <<>>
    /\ key = ""
    /\ ret = None

\* self.unlocated_eq(&other)
UnlocatedEq ==
    /\ pc = "call"
    /\ ret' = unlocated_eq(self, other)
    /\ pc' = "ret"
    /\ op' = "unlocated_eq"
    /\ UNCHANGED <<self, values, other, key>>

NextEq == UnlocatedEq

SpecEq == InitEq /\ [][NextEq]_vars

(***************************************************************************)
(* A call of one of the operations of an InputValue                        *)
(***************************************************************************)
\* {foo: 1, bar: 2}
ScenarioObject ==
    parsed_object(<<
        <<unlocated("foo"), unlocated(Scalar(IntScalar(1)))>>,
        <<unlocated("bar"), unlocated(Scalar(IntScalar(2)))>> >>)

\* [1, 2]
ScenarioList == list(<<Scalar(IntScalar(1)), Scalar(IntScalar(2))>>)

ValueInputs ==
    ConstInputs \cup {ScenarioObject, ScenarioList, Scalar(StrScalar("FOO"))}

\* One value of every variant.
OneOfEach == {Null, Scalar(IntScalar(1)), Enum("a"), Variable("a"),
              list(<<>>), parsed_object(<<>>)}

InitValue ==
    /\ pc = "call"
    /\ op = "none"
    /\ self \in ValueInputs
    /\ values = <<>>
    /\ other = Null
    /\ key = ""
    /\ ret = None

\* self.to_string(), that is Display::fmt into an empty text.
Display ==
    /\ pc = "call"
    /\ ret' = fmt(self)
    /\ pc' = "ret"
    /\ op' = "fmt"
    /\ UNCHANGED <<self, values, other, key>>

\* self.to_object_value()
ToObjectValue ==
    /\ pc = "call"
    /\ ret' = to_object_value(self)
    /\ pc' = "ret"
    /\ op' = "to_object_value"
    /\ UNCHANGED <<self, values, other, key>>

\* self.to_list_value()
ToListValue ==
    /\ pc = "call"
    /\ ret' = to_list_value(self)
    /\ pc' = "ret"
    /\ op' = "to_list_value"
    /\ UNCHANGED <<self, values, other, key>>

\* self.referenced_variables()
ReferencedVariables ==
    /\ pc = "call"
    /\ ret' = referenced_variables(self)
    /\ pc' = "ret"
    /\ op' = "referenced_variables"
    /\ UNCHANGED <<self, values, other, key>>

\* self.into_const(&m) for a map m chosen at the call.
IntoConstWith ==
    /\ pc = "call"
    /\ \E m \in Bindings :
        /\ values' = m
        /\ ret' = into_const(self, m)
    /\ pc' = "ret"
    /\ op' = "into_const"
    /\ UNCHANGED <<self, other, key>>

\* self.unlocated_eq(&o) for a value o chosen at the call.
UnlocatedEqWith ==
    /\ pc = "call"
    /\ \E o \in OneOfEach \cup {self} :
        /\ other' = o
        /\ ret' = unlocated_eq(self, o)
    /\ pc' = "ret"
    /\ op' = "unlocated_eq"
    /\ UNCHANGED <<self, values, key>>

NextValue ==
    \/ Display
    \/ ToObjectValue
    \/ ToListValue
    \/ ReferencedVariables
    \/ IntoConstWith
    \/ UnlocatedEqWith

SpecValue == InitValue /\ [][NextValue]_vars

(***************************************************************************)
(* A call of one of the operations of a type literal                       *)
(***************************************************************************)
TypeNames == {"Int", "String"}

\* The size hints of a list type.
Hints == {None, Some(2)}

NamedTypes == {Named(n) : n \in TypeNames} \cup {NonNullNamed(n) : n \in TypeNames}

\* The list wrappers around a named type, innermost first: each is
\* <<non-null, hint>>.
Wrappers == SeqsUpTo(BOOLEAN \X Hints, MaxDepth)

RECURSIVE Wrapped(_, _)

\* The named type `leaf` inside the list wrappers w.
Wrapped(leaf, w) ==
    IF w = <<>> THEN leaf
    ELSE LET in == Wrapped(leaf, SubSeq(w, 1, Len(w) - 1))
             out == w[Len(w)]
         IN  IF out[1] THEN NonNullList(in, out[2]) ELSE TypeList(in, out[2])

TypeLiterals == {Wrapped(leaf, w) : leaf \in NamedTypes, w \in Wrappers}

InitType ==
    /\ pc = "call"
    /\ op = "none"
    /\ self \in TypeLiterals
    /\ values = <<>>
    /\ other = Null
    /\ key = ""
    /\ ret = None

\* self.name()
TypeName ==
    /\ pc = "call"
    /\ ret' = type_name(self)
    /\ pc' = "ret"
    /\ op' = "name"
    /\ UNCHANGED <<self, values, other, key>>

\* self.innermost_name()
InnermostName ==
    /\ pc = "call"
    /\ ret' = innermost_name(self)
    /\ pc' = "ret"
    /\ op' = "innermost_name"
    /\ UNCHANGED <<self, values, other, key>>

\* self.is_non_null()
IsNonNull ==
    /\ pc = "call"
    /\ ret' = is_non_null(self)
    /\ pc' = "ret"
    /\ op' = "is_non_null"
    /\ UNCHANGED <<self, values, other, key>>

\* self.to_string(), that is Display::fmt into an empty text.
TypeDisplay ==
    /\ pc = "call"
    /\ ret' = type_fmt(self)
    /\ pc' = "ret"
    /\ op' = "fmt"
    /\ UNCHANGED <<self, values, other, key>>

NextType == TypeName \/ InnermostName \/ IsNonNull \/ TypeDisplay

SpecType == InitType /\ [][NextType]_vars

(***************************************************************************)
(* A call of Arguments::get or Arguments::len                              *)
(***************************************************************************)
ArgumentValues == {Scalar(IntScalar(1)), Variable("a")}

\* The argument lists of at most MaxLen entries as the parser delivers
\* them: the i-th entry has its name at span 2i - 1 and its value at 2i.
ArgumentLists ==
    {Arguments([i \in 1..Len(ns) |->
            <<Spanning(ns[i][1], 2 * i - 1), Spanning(ns[i][2], 2 * i)>>])
        : ns \in SeqsUpTo(Names \X ArgumentValues, MaxLen)}

\* The names looked up: those of the lists and one that no list has.
LookupKeys == Names \cup {"c"}

InitArgs ==
    /\ pc = "call"
    /\ op = "none"
    /\ self \in ArgumentLists
    /\ key \in LookupKeys
    /\ values = <<>>
    /\ other = Null
    /\ ret = None

\* self.get(key)
ArgumentsGet ==
    /\ pc = "call"
    /\ ret' = get(self, key)
    /\ pc' = "ret"
    /\ op' = "get"
    /\ UNCHANGED <<self, values, other, key>>

\* self.len()
ArgumentsLen ==
    /\ pc = "call"
    /\ ret' = len(self)
    /\ pc' = "ret"
    /\ op' = "len"
    /\ UNCHANGED <<self, values, other, key>>

NextArgs == ArgumentsGet \/ ArgumentsLen

SpecArgs == InitArgs /\ [][NextArgs]_vars

(***************************************************************************)
(* trait FromInputValue.  An implementer is its from_input_value: a map    *)
(* from the input value to Result<Self, Self::Error>.                      *)
(***************************************************************************)
Ok(x) == [tag |-> "Ok", val |-> x]

Err(e) == [tag |-> "Err", err |-> e]

\* Self::from_input_value(v), the required method.
from_input_value(impl, v) == impl[v]

\* A provided method that converts an empty list instead of null.
from_implicit_null_empty_list(impl) == from_input_value(impl, list(<<>>))

\* The provided method: Self::from_input_value(&InputValue::Null).
from_implicit_null(impl) == from_input_value(impl, Null)

\* What a conversion can answer.
ConversionResults == {Ok(1), Ok(2), Err("expected")}

\* The implementers that do not override from_implicit_null, told apart by
\* what they answer for one value of every variant.
Implementers == [OneOfEach -> ConversionResults]

InitFromInput ==
    /\ pc = "call"
    /\ op = "none"
    /\ self \in Implementers
    /\ values = <<>>
    /\ other = Null
    /\ key = ""
    /\ ret = None

\* Self::from_input_value(&v) for a value v chosen at the call.
FromInputValue ==
    /\ pc = "call"
    /\ \E v \in OneOfEach :
        /\ other' = v
        /\ ret' = from_input_value(self, v)
    /\ pc' = "ret"
    /\ op' = "from_input_value"
    /\ UNCHANGED <<self, values, key>>

\* Self::from_implicit_null()
FromImplicitNull ==
    /\ pc = "call"
    /\ ret' = from_implicit_null(self)
    /\ pc' = "ret"
    /\ op' = "from_implicit_null"
    /\ UNCHANGED <<self, values, other, key>>

NextFromInput == FromInputValue \/ FromImplicitNull

SpecFromInput == InitFromInput /\ [][NextFromInput]_vars

(***************************************************************************)
(* trait IntoInputValue.  The values converted are an InputValue, an i32,  *)
(* a String, and an Option of any of them (nested Options included).       *)
(***************************************************************************)
I32(n) == [tag |-> "i32", v |-> n]

String(s) == [tag |-> "String", v |-> s]

RECURSIVE into_input_value(_)

\* An Option arm that gives up on an Option inside the Option.
into_input_value_option_shallow(o) ==
    IF is_some(o)
    THEN IF o.val.tag \in {"Some", "None"} THEN Null
         ELSE into_input_value(o.val)
    ELSE Null

\* impl IntoInputValue for Option<T>
into_input_value_option(o) ==
    IF is_some(o) THEN into_input_value(o.val) ELSE Null

into_input_value(x) ==
    CASE x.tag \in {"Some", "None"} -> into_input_value_option(x)
      [] x.tag = "i32" -> Scalar(IntScalar(x.v))
      [] x.tag = "String" -> Scalar(StrScalar(x.v))
      [] OTHER -> x

\* The values without an Option around them.
Convertibles ==
    UNION {ValuesOfSize(n) : n \in 1..MaxLen}
        \cup {I32(1), I32(2), String("hi"), String("FOO")}

RECURSIVE OptionsOf(_)

\* The values inside exactly n Options.
OptionsOf(n) ==
    IF n = 0 THEN Convertibles
    ELSE {None} \cup {Some(x) : x \in OptionsOf(n - 1)}

InitInto ==
    /\ pc = "call"
    /\ op = "none"
    /\ self \in UNION {OptionsOf(n) : n \in 0..MaxDepth}
    /\ values = <<>>
    /\ other = Null
    /\ key = ""
    /\ ret = None

\* self.into_input_value()
IntoInputValue ==
    /\ pc = "call"
    /\ ret' = into_input_value(self)
    /\ pc' = "ret"
    /\ op' = "into_input_value"
    /\ UNCHANGED <<self, values, other, key>>

NextInto == IntoInputValue

SpecInto == InitInto /\ [][NextInto]_vars

(***************************************************************************)
(* Several folds of copies of one literal.  Each fold is a call            *)
(* self.clone().into_const(&m) with m one of the maps of a store the folds *)
(* share; the folds run in any order.  Here pc and ret hold one entry per  *)
(* fold, values is the store, key tells which map a fold borrows and op is *)
(* the fold that ran last.                                                 *)
(***************************************************************************)
Folds == {"f1", "f2"}

MapIds == {"m1", "m2"}

\* The map after a fold that takes the bound values out: values.remove(..).
values_after_into_const_removing(m, v) ==
    LET used == {referenced_variables(v)[i] : i \in 1..Len(referenced_variables(v))}
    IN  [n \in DOMAIN m \ used |-> m[n]]

\* The map m after into_const(v, &m): `values` is a shared borrow and
\* get(..).cloned() copies out of it, so the map is as it was.
values_after_into_const(m, v) == m

FoldLiterals ==
    ValuesOfSize(1) \cup {list(<<x>>) : x \in Atoms}
        \cup {ScenarioLiteral, Located(ScenarioLiteral),
              list(<<Variable("a"), Variable("b")>>)}

InitFolds ==
    /\ pc = [f \in Folds |-> "call"]
    /\ op = "none"
    /\ self \in FoldLiterals
    /\ values \in [MapIds -> Bindings]
    /\ key \in [Folds -> MapIds]
    /\ other = Null
    /\ ret = [f \in Folds |-> None]

\* Fold f runs: self.clone().into_const(&values[key[f]]).
Fold(f) ==
    /\ pc[f] = "call"
    /\ ret' = [ret EXCEPT ![f] = into_const(self, values[key[f]])]
    /\ values' = [values EXCEPT
                    ![key[f]] = values_after_into_const(values[key[f]], self)]
    /\ pc' = [pc EXCEPT ![f] = "ret"]
    /\ op' = f
    /\ UNCHANGED <<self, other, key>>

NextFolds == \E f \in Folds : Fold(f)

SpecFolds == InitFolds /\ [][NextFolds]_vars

(***************************************************************************)
(* integrations/time.rs: the format descriptions of the `time` crate.  A   *)
(* description is a sequence of items, each a literal text or a component  *)
(* of a fixed number of digits with a largest value.                       *)
(***************************************************************************)
Literal(t) == [kind |-> "literal", text |-> t]

Component(n, w, hi) == [kind |-> "component", name |-> n, digits |-> w, max |-> hi]

\* The text from position i on.
From(s, i) == SubSeq(s, i, Len(s))

\* The digit d as a text.
Digit(d) == SubSeq("0123456789", d + 1, d + 1)

IsDigit(c) == \E d \in 0..9 : Digit(d) = c

DigitValue(c) == CHOOSE d \in 0..9 : Digit(d) = c

RECURSIVE Padded(_, _), Number(_)

\* n in w digits, zeros in front.
Padded(n, w) ==
    IF w = 0 THEN "" ELSE Padded(n \div 10, w - 1) \o Digit(n % 10)

\* The number a text of digits stands for.
Number(s) ==
    IF s = "" THEN 0
    ELSE 10 * Number(SubSeq(s, 1, Len(s) - 1)) + DigitValue(From(s, Len(s)))

AllDigits(s) == \A i \in 1..Len(s) : IsDigit(SubSeq(s, i, i))

\* time::Time, to the nanosecond.
Time(h, m, s, ns) == [hour |-> h, minute |-> m, second |-> s, nanosecond |-> ns]

\* Time::millisecond
millisecond(t) == t.nanosecond \div 1000000

\* The value of the component named n in t; a subsecond of three digits is
\* the milliseconds, what is finer is cut off.
component_value(t, n) ==
    CASE n = "hour" -> t.hour
      [] n = "minute" -> t.minute
      [] n = "second" -> t.second
      [] n = "subsecond" -> millisecond(t)

\* The parsed time with the component named n set to x.
with_component(t, n, x) ==
    CASE n = "hour" -> [t EXCEPT !.hour = x]
      [] n = "minute" -> [t EXCEPT !.minute = x]
      [] n = "second" -> [t EXCEPT !.second = x]
      [] n = "subsecond" -> [t EXCEPT !.nanosecond = x * 1000000]

RECURSIVE format_into(_, _), parse_items(_, _, _)

\* Time::format_into(_, format): the text of t in the format.
format_into(t, format) ==
    IF format = <<>> THEN ""
    ELSE LET it == Head(format)
         IN  (IF it.kind = "literal" THEN it.text
              ELSE Padded(component_value(t, it.name), it.digits))
                 \o format_into(t, Tail(format))

\* The items of `format` read off the front of s into `parsed`; the whole
\* of s must be used up.
parse_items(s, format, parsed) ==
    IF format = <<>>
    THEN IF s = "" THEN Ok(parsed)
         ELSE Err("unexpected trailing characters; the end of input was expected")
    ELSE LET it == Head(format)
         IN  IF it.kind = "literal"
             THEN IF Len(s) >= Len(it.text) /\ SubSeq(s, 1, Len(it.text)) = it.text
                  THEN parse_items(From(s, Len(it.text) + 1), Tail(format), parsed)
                  ELSE Err("a character literal was not valid")
             ELSE IF /\ Len(s) >= it.digits
                     /\ AllDigits(SubSeq(s, 1, it.digits))
                     /\ Number(SubSeq(s, 1, it.digits)) <= it.max
                  THEN parse_items(From(s, it.digits + 1), Tail(format),
                            with_component(parsed, it.name,
                                           Number(SubSeq(s, 1, it.digits))))
                  ELSE Err("the '" \o it.name \o "' component could not be parsed")

\* Time::parse(s, format): the components a format leaves out are zero.
parse(s, format) == parse_items(s, format, Time(0, 0, 0, 0))

\* Result::or_else
or_else(r, next) == IF r.tag = "Ok" THEN r ELSE next

\* Result::map_err(|e| format!("{prefix}{e}")).  The prefixes of the source
\* put the scalar's name between backquotes; a string of this module cannot
\* hold one and has an apostrophe in its place.
map_err(r, prefix) == IF r.tag = "Ok" THEN r ELSE Err(prefix \o r.err)

(***************************************************************************)
(* integrations/time.rs, mod local_time                                    *)
(***************************************************************************)
Hour == Component("hour", 2, 23)

Minute == Component("minute", 2, 59)

Second == Component("second", 2, 59)

Subsecond3 == Component("subsecond", 3, 999)

\* [hour]:[minute]:[second].[subsecond digits:3]
LOCAL_TIME_FORMAT ==
    <<Hour, Literal(":"), Minute, Literal(":"), Second, Literal("."), Subsecond3>>

\* [hour]:[minute]:[second]
FORMAT_NO_MILLIS == <<Hour, Literal(":"), Minute, Literal(":"), Second>>

\* [hour]:[minute]
FORMAT_NO_SECS == <<Hour, Literal(":"), Minute>>

\* A Display that chooses the short format only when no fraction is left.
local_time_fmt_by_nanosecond(v) ==
    Written(format_into(v, IF v.nanosecond = 0 THEN FORMAT_NO_MILLIS
                           ELSE LOCAL_TIME_FORMAT))

\* impl Display for LazyFmt<&LocalTime>
local_time_fmt(v) ==
    Written(format_into(v, IF millisecond(v) = 0 THEN FORMAT_NO_MILLIS
                           ELSE LOCAL_TIME_FORMAT))

\* local_time::to_output(v).to_string()
local_time_to_output(v) == local_time_fmt(v).text

\* A from_input that tries the full format first and the short ones after.
local_time_from_input_full_first(s) ==
    map_err(or_else(or_else(parse(s, LOCAL_TIME_FORMAT),
                            parse(s, FORMAT_NO_MILLIS)),
                    parse(s, FORMAT_NO_SECS)),
            "Invalid 'LocalTime': ")

\* local_time::from_input
local_time_from_input(s) ==
    map_err(or_else(or_else(parse(s, FORMAT_NO_MILLIS),
                            parse(s, FORMAT_NO_SECS)),
                    parse(s, LOCAL_TIME_FORMAT)),
            "Invalid 'LocalTime': ")

\* The texts of local_time_test::parses_correct_input.
LocalTimeCorrectInputs ==
    {"14:23:43", "14:00:00", "14:00", "14:32", "14:00:00.000", "14:23:43.345"}

\* The texts of local_time_test::fails_on_invalid_input.
LocalTimeInvalidInputs ==
    {"12", "12:", "56:34:22", "23:78:43", "23:78:", "23:18:99",
     "23:18:22.4351", "23:18:22.", "23:18:22.3", "23:18:22.03", "22.03",
     "24:00", "24:00:00", "24:00:00.000", "i'm not even a time"}

\* The times converted: on the second, on the millisecond, finer than the
\* millisecond, and with nothing but a part finer than the millisecond.
LocalTimes ==
    {Time(h, m, s, ns) : h \in {0, 1, 14, 23}, m \in {0, 2, 32}, s \in {0, 3, 43},
                         ns \in {0, 345000000, 4005000, 500000}}

InitLocalTime ==
    /\ pc = "call"
    /\ op = "none"
    /\ self \in LocalTimes
    /\ key \in LocalTimeCorrectInputs \cup LocalTimeInvalidInputs
    /\ values = <<>>
    /\ other = Null
    /\ ret = None

\* local_time::to_output(&self).to_string()
LocalTimeToOutput ==
    /\ pc = "call"
    /\ ret' = local_time_to_output(self)
    /\ pc' = "ret"
    /\ op' = "to_output"
    /\ UNCHANGED <<self, values, other, key>>

\* local_time::from_input(key), key being the text `s`.
LocalTimeFromInput ==
    /\ pc = "call"
    /\ ret' = local_time_from_input(key)
    /\ pc' = "ret"
    /\ op' = "from_input"
    /\ UNCHANGED <<self, values, other, key>>

NextLocalTime == LocalTimeToOutput \/ LocalTimeFromInput

SpecLocalTime == InitLocalTime /\ [][NextLocalTime]_vars

(***************************************************************************)
(* integrations/time.rs, mod date_time: time::OffsetDateTime, a date and a *)
(* time of the day at an offset from UTC, the offset in seconds.           *)
(***************************************************************************)
OffsetDateTime(y, mo, d, h, mi, s, ns, off) ==
    [year |-> y, month |-> mo, day |-> d, hour |-> h, minute |-> mi,
     second |-> s, nanosecond |-> ns, offset |-> off]

\* UtcOffset::UTC
UTC == 0

is_leap_year(y) == y % 4 = 0 /\ (y % 100 # 0 \/ y % 400 = 0)

days_in_month(y, mo) ==
    CASE mo = 2 -> IF is_leap_year(y) THEN 29 ELSE 28
      [] mo \in {4, 6, 9, 11} -> 30
      [] OTHER -> 31

\* The date of dt moved by one day forward.
next_day(dt) ==
    IF dt.day < days_in_month(dt.year, dt.month) THEN [dt EXCEPT !.day = @ + 1]
    ELSE IF dt.month < 12 THEN [dt EXCEPT !.day = 1, !.month = @ + 1]
    ELSE [dt EXCEPT !.day = 1, !.month = 1, !.year = @ + 1]

\* The date of dt moved by one day back.
previous_day(dt) ==
    IF dt.day > 1 THEN [dt EXCEPT !.day = @ - 1]
    ELSE IF dt.month > 1
         THEN [dt EXCEPT !.day = days_in_month(dt.year, dt.month - 1), !.month = @ - 1]
    ELSE [dt EXCEPT !.day = 31, !.month = 12, !.year = @ - 1]

RECURSIVE add_days(_, _)

add_days(dt, n) ==
    IF n = 0 THEN dt
    ELSE IF n > 0 THEN add_days(next_day(dt), n - 1)
    ELSE add_days(previous_day(dt), n + 1)

\* OffsetDateTime::to_offset: the same instant as a date and time at `off`.
to_offset(dt, off) ==
    LET at == dt.hour * 3600 + dt.minute * 60 + dt.second - dt.offset + off
        of_day == at % 86400
        moved == add_days(dt, at \div 86400)
    IN  [moved EXCEPT !.hour = of_day \div 3600,
                      !.minute = (of_day % 3600) \div 60,
                      !.second = of_day % 60,
                      !.offset = off]

RECURSIVE Trimmed(_)

\* A text of digits without the zeros at its end.
Trimmed(s) ==
    IF s # "" /\ From(s, Len(s)) = "0" THEN Trimmed(SubSeq(s, 1, Len(s) - 1)) ELSE s

\* The offset of the well-known Rfc3339 format: Z for UTC, else +hh:mm or
\* -hh:mm.
rfc3339_offset(off) ==
    IF off = 0 THEN "Z"
    ELSE LET abs == IF off < 0 THEN -off ELSE off
         IN  (IF off < 0 THEN "-" ELSE "+")
                 \o Padded(abs \div 3600, 2) \o ":" \o Padded((abs % 3600) \div 60, 2)

\* OffsetDateTime::format_into(_, &Rfc3339): it fails for a year outside
\* 0..9999 and for an offset with seconds.
rfc3339_format(dt) ==
    IF dt.year < 0 \/ dt.year > 9999 \/ dt.offset % 60 # 0 THEN Panicked("")
    ELSE Written(
            Padded(dt.year, 4) \o "-" \o Padded(dt.month, 2) \o "-"
                \o Padded(dt.day, 2) \o "T" \o Padded(dt.hour, 2) \o ":"
                \o Padded(dt.minute, 2) \o ":" \o Padded(dt.second, 2)
                \o (IF dt.nanosecond = 0 THEN ""
                    ELSE "." \o Trimmed(Padded(dt.nanosecond, 9)))
                \o rfc3339_offset(dt.offset))

\* A Display that renders the value at the offset it carries.
date_time_fmt_at_own_offset(v) == rfc3339_format(v)

\* impl Display for LazyFmt<&DateTime>
date_time_fmt(v) == rfc3339_format(to_offset(v, UTC))

\* date_time::to_output(v).to_string()
date_time_to_output(v) == date_time_fmt(v).text

RECURSIVE LeadingDigits(_)

\* How many digits the text starts with.
LeadingDigits(s) ==
    IF s # "" /\ IsDigit(SubSeq(s, 1, 1)) THEN 1 + LeadingDigits(From(s, 2)) ELSE 0

\* The text s is two digits of a number of at most hi.
TwoDigits(s, hi) == Len(s) = 2 /\ AllDigits(s) /\ Number(s) <= hi

\* The fraction at the front of s, the point included: "" when s does not
\* start with a point.
rfc3339_fraction(s) ==
    IF s # "" /\ SubSeq(s, 1, 1) = "."
    THEN SubSeq(s, 1, 1 + LeadingDigits(From(s, 2)))
    ELSE ""

\* The nanoseconds of a fraction: its first nine digits, zeros added.
rfc3339_nanosecond(frac) ==
    IF frac = "" THEN 0
    ELSE LET digits == SubSeq(frac, 2, IF Len(frac) > 10 THEN 10 ELSE Len(frac))
         IN  Number(digits \o SubSeq("000000000", 1, 9 - Len(digits)))

\* The text s is Z, z, +hh:mm or -hh:mm.
rfc3339_is_offset(s) ==
    \/ s \in {"Z", "z"}
    \/ /\ Len(s) = 6
       /\ SubSeq(s, 1, 1) \in {"+", "-"}
       /\ TwoDigits(SubSeq(s, 2, 3), 23)
       /\ SubSeq(s, 4, 4) = ":"
       /\ TwoDigits(SubSeq(s, 5, 6), 59)

\* The seconds of an offset text.
rfc3339_offset_seconds(s) ==
    IF s \in {"Z", "z"} THEN 0
    ELSE (IF SubSeq(s, 1, 1) = "-" THEN -1 ELSE 1)
            * (Number(SubSeq(s, 2, 3)) * 3600 + Number(SubSeq(s, 5, 6)) * 60)

\* OffsetDateTime::parse(s, &Rfc3339): the date, T, t or a space, the time,
\* a fraction or none, and the offset; the value keeps the offset read.
rfc3339_parse(s) ==
    IF /\ Len(s) >= 20
       /\ AllDigits(SubSeq(s, 1, 4))
       /\ SubSeq(s, 5, 5) = "-"
       /\ TwoDigits(SubSeq(s, 6, 7), 12) /\ Number(SubSeq(s, 6, 7)) >= 1
       /\ SubSeq(s, 8, 8) = "-"
       /\ TwoDigits(SubSeq(s, 9, 10),
                    days_in_month(Number(SubSeq(s, 1, 4)), Number(SubSeq(s, 6, 7))))
       /\ Number(SubSeq(s, 9, 10)) >= 1
       /\ SubSeq(s, 11, 11) \in {"T", "t", " "}
       /\ TwoDigits(SubSeq(s, 12, 13), 23)
       /\ SubSeq(s, 14, 14) = ":"
       /\ TwoDigits(SubSeq(s, 15, 16), 59)
       /\ SubSeq(s, 17, 17) = ":"
       /\ TwoDigits(SubSeq(s, 18, 19), 59)
       /\ Len(rfc3339_fraction(From(s, 20))) # 1
       /\ rfc3339_is_offset(From(s, 20 + Len(rfc3339_fraction(From(s, 20)))))
    THEN LET frac == rfc3339_fraction(From(s, 20))
         IN  Ok(OffsetDateTime(
                    Number(SubSeq(s, 1, 4)), Number(SubSeq(s, 6, 7)),
                    Number(SubSeq(s, 9, 10)), Number(SubSeq(s, 12, 13)),
                    Number(SubSeq(s, 15, 16)), Number(SubSeq(s, 18, 19)),
                    rfc3339_nanosecond(frac),
                    rfc3339_offset_seconds(From(s, 20 + Len(frac)))))
    ELSE Err("the input is not a date and time of RFC 3339")

\* Result::map(|dt| dt.to_offset(off))
map_to_offset(r, off) == IF r.tag = "Ok" THEN Ok(to_offset(r.val, off)) ELSE r

\* A from_input that keeps the offset of the text.
date_time_from_input_keeping_offset(s) ==
    map_err(rfc3339_parse(s), "Invalid 'DateTime': ")

\* date_time::from_input
date_time_from_input(s) ==
    map_err(map_to_offset(rfc3339_parse(s), UTC), "Invalid 'DateTime': ")

\* The texts of date_time_test::parses_correct_input.
DateTimeCorrectInputs ==
    {"2014-11-28T21:00:09+09:00", "2014-11-28T21:00:09Z", "2014-11-28 21:00:09z",
     "2014-11-28T21:00:09+00:00", "2014-11-28T21:00:09.05+09:00",
     "2014-11-28 21:00:09.05+09:00"}

\* The texts of date_time_test::fails_on_invalid_input.
DateTimeInvalidInputs ==
    {"12", "12:", "56:34:22", "56:34:22.000", "1996-12-1914:23:43",
     "1996-12-19T14:23:43", "1996-12-19T14:23:43ZZ", "1996-12-19T14:23:43.543",
     "1996-12-19T14:23", "1996-12-19T14:23:1", "1996-12-19T14:23:",
     "1996-12-19T23:78:43Z", "1996-12-19T23:18:99Z", "1996-12-19T24:00:00Z",
     "1996-12-19T99:02:13Z", "1996-12-19T12:02:13+4444444",
     "i'm not even a datetime"}

\* Texts whose conversion to UTC changes the day, the month or the year.
DateTimeRollingInputs ==
    {"2015-01-01T00:30:00+01:00", "2016-02-29T23:00:00.123456789-02:00",
     "2100-02-28T20:15:00-05:30", "1996-12-19T16:39:57-08:00"}

\* The values converted: the dates and times of the tests and those at the
\* end of a month or a year, at UTC and east and west of it.
DateTimes ==
    {OffsetDateTime(d[1], d[2], d[3], t[1], t[2], t[3], ns, off) :
        d \in {<<1564, 1, 30>>, <<1996, 12, 19>>, <<2015, 1, 1>>, <<2016, 2, 29>>,
               <<2100, 2, 28>>, <<2014, 12, 31>>},
        t \in {<<0, 0, 0>>, <<14, 0, 0>>, <<16, 39, 57>>, <<23, 59, 59>>},
        ns \in {0, 50000000, 4005000},
        off \in {UTC, 32400, -28800, 19800, 30}}

InitDateTime ==
    /\ pc = "call"
    /\ op = "none"
    /\ self \in DateTimes
    /\ key \in DateTimeCorrectInputs \cup DateTimeInvalidInputs
                \cup DateTimeRollingInputs
    /\ values = <<>>
    /\ other = Null
    /\ ret = None

\* date_time::to_output(&self).to_string()
DateTimeToOutput ==
    /\ pc = "call"
    /\ ret' = date_time_to_output(self)
    /\ pc' = "ret"
    /\ op' = "to_output"
    /\ UNCHANGED <<self, values, other, key>>

\* date_time::from_input(key), key being the text `s`.
DateTimeFromInput ==
    /\ pc = "call"
    /\ ret' = date_time_from_input(key)
    /\ pc' = "ret"
    /\ op' = "from_input"
    /\ UNCHANGED <<self, values, other, key>>

NextDateTime == DateTimeToOutput \/ DateTimeFromInput

SpecDateTime == InitDateTime /\ [][NextDateTime]_vars

(***************************************************************************)
(* ToInputValue and FromInputValue of the scalars LocalTime and DateTime,  *)
(* as #[graphql_scalar(with = ..)] derives them from to_output and         *)
(* from_input: the text of to_output as a string scalar, and from_input of *)
(* the text of a string scalar.                                            *)
(***************************************************************************)
LocalTimeValue(t) == [scalar |-> "LocalTime", v |-> t]

DateTimeValue(dt) == [scalar |-> "DateTime", v |-> dt]

\* Display of to_output(v) for the scalar of x.
to_output_fmt(x) ==
    IF x.scalar = "LocalTime" THEN local_time_fmt(x.v) ELSE date_time_fmt(x.v)

\* What a call is left with when to_string panics.
ToStringPanic ==
    [tag |-> "Panic",
     message |-> "a Display implementation returned an error unexpectedly"]

\* x.v.to_input_value(): to_output(v).to_string() as a string scalar;
\* to_string panics when Display returns an error.
to_input_value(x) ==
    IF to_output_fmt(x).status = "ok"
    THEN Scalar(StrScalar(to_output_fmt(x).text))
    ELSE ToStringPanic

\* <scalar>::from_input_value(iv): from_input of a string, an error for
\* any other value.
from_input_value_of(scalar, iv) ==
    IF iv.tag = "Scalar" /\ iv.s.k = "String"
    THEN IF scalar = "LocalTime" THEN local_time_from_input(iv.s.v)
         ELSE date_time_from_input(iv.s.v)
    ELSE Err("Expected a String")

\* from_input_value(&v.to_input_value())
round_trip(x) ==
    IF to_input_value(x).tag = "Scalar"
    THEN from_input_value_of(x.scalar, to_input_value(x))
    ELSE to_input_value(x)

\* The values converted, one of them a date before year 0.
RoundTripValues ==
    {LocalTimeValue(t) : t \in LocalTimes}
        \cup {DateTimeValue(dt) : dt \in DateTimes}
        \cup {DateTimeValue(OffsetDateTime(-1, 6, 15, 12, 0, 0, 0, UTC))}

InitRoundTrip ==
    /\ pc = "call"
    /\ op = "none"
    /\ self \in RoundTripValues
    /\ key = ""
    /\ values = <<>>
    /\ other = Null
    /\ ret = None

\* self.to_input_value()
ToInputValue ==
    /\ pc = "call"
    /\ ret' = to_input_value(self)
    /\ pc' = "ret"
    /\ op' = "to_input_value"
    /\ UNCHANGED <<self, values, other, key>>

\* T::from_input_value(&self.to_input_value())
RoundTrip ==
    /\ pc = "call"
    /\ ret' = round_trip(self)
    /\ pc' = "ret"
    /\ op' = "round_trip"
    /\ UNCHANGED <<self, values, other, key>>

NextRoundTrip == ToInputValue \/ RoundTrip

SpecRoundTrip == InitRoundTrip /\ [][NextRoundTrip]_vars

(***************************************************************************)
(* A call of unlocated_eq on values with objects inside objects and lists  *)
(***************************************************************************)
\* The object of the keys k1 and k2, in that order, foo with 1 and bar
\* with 2.
TwoFields(k1, k2) ==
    LET of(k) == Scalar(IntScalar(IF k = "foo" THEN 1 ELSE 2))
    IN  parsed_object(<<<<unlocated(k1), unlocated(of(k1))>>,
                        <<unlocated(k2), unlocated(of(k2))>>>>)

\* What the compared lists and objects hold: scalars, a list, and objects
\* of the same entries in two orders and of one key twice.
NestedElems ==
    {Scalar(IntScalar(1)), Scalar(IntScalar(2)), list(<<Scalar(IntScalar(1))>>),
     TwoFields("foo", "bar"), TwoFields("bar", "foo"), TwoFields("foo", "foo")}

NestedValues ==
    NestedElems
        \cup {list(l) : l \in [1..2 -> NestedElems] \cup [1..1 -> NestedElems]}
        \cup {parsed_object([i \in 1..Len(o) |->
                    <<unlocated(o[i][1]), unlocated(o[i][2])>>])
                : o \in [1..2 -> Keys \X NestedElems] \cup [1..1 -> Keys \X NestedElems]}

InitNested ==
    /\ pc = "call"
    /\ op = "none"
    /\ self \in NestedValues
    /\ other \in NestedValues
    /\ values = <<>>
    /\ key = ""
    /\ ret = None

SpecNested == InitNested /\ [][NextEq]_vars

(***************************************************************************)
(* Properties of into_const                                                *)
(***************************************************************************)
\* v is a Variable that `values` does not bind.
IsUnboundVariable(v) == v.tag = "Variable" /\ v.name \notin DOMAIN values

\* The indices of the fields of o whose value folds to Some.
ResolvedFields(o) ==
    {i \in 1..Len(o) : is_some(into_const(o[i][2].item, values))}

\* The index in o of the j-th field whose value folds to Some.
NthResolved(o, j) ==
    CHOOSE i \in ResolvedFields(o) :
        Cardinality({k \in ResolvedFields(o) : k <= i}) = j

\* C1: folding a List gives Some(List(r)) of the same length, where r[i] is
\* the folded items[i], or Null when items[i] folds to None, which happens
\* only when items[i] is an unbound Variable.
C1_ListFoldKeepsEveryPosition ==
    (pc = "ret" /\ self.tag = "List") =>
        /\ is_some(ret)
        /\ ret.val.tag = "List"
        /\ Len(ret.val.items) = Len(self.items)
        /\ \A i \in 1..Len(self.items) :
            LET f == into_const(self.items[i].item, values)
            IN  /\ is_some(f) => ret.val.items[i].item = f.val
                /\ ~is_some(f) =>
                        /\ ret.val.items[i].item = Null
                        /\ IsUnboundVariable(self.items[i].item)

C1_Witness ==
    /\ pc = "ret"
    /\ self.tag = "List"
    /\ Len(self.items) >= 2
    /\ IsUnboundVariable(self.items[1].item)
    /\ ~IsUnboundVariable(self.items[2].item)
    /\ ret.val.items[1].item = Null

\* C2: folding an Object gives Some(Object(r)) where r is the subsequence of
\* the fields whose value folds to Some, in storage order, each with its
\* key and its folded value; a field is omitted only when its value is
\* directly an unbound Variable, and every key of r is a key of the input.
C2_ObjectFoldIsResolvedSubsequence ==
    (pc = "ret" /\ self.tag = "Object") =>
        /\ is_some(ret)
        /\ ret.val.tag = "Object"
        /\ Len(ret.val.fields) = Cardinality(ResolvedFields(self.fields))
        /\ \A j \in 1..Len(ret.val.fields) :
            LET i == NthResolved(self.fields, j)
            IN  /\ ret.val.fields[j][1].item = self.fields[i][1].item
                /\ ret.val.fields[j][2].item =
                        into_const(self.fields[i][2].item, values).val
        /\ \A i \in 1..Len(self.fields) :
            i \notin ResolvedFields(self.fields) =>
                IsUnboundVariable(self.fields[i][2].item)
        /\ \A j \in 1..Len(ret.val.fields) :
            \E i \in 1..Len(self.fields) :
                ret.val.fields[j][1].item = self.fields[i][1].item

C2_Witness ==
    /\ pc = "ret"
    /\ self.tag = "Object"
    /\ Len(self.fields) = 2
    /\ IsUnboundVariable(self.fields[1][2].item)
    /\ ~IsUnboundVariable(self.fields[2][2].item)
    /\ Len(ret.val.fields) = 1
    /\ ret.val.fields[1][1].item = self.fields[2][1].item

\* C3: folding Variable(name) gives Some of exactly the value bound to name
\* (not folded any further) when name is bound, and None when it is not.
C3_VariableFoldIsLookup ==
    (pc = "ret" /\ self.tag = "Variable") =>
        /\ self.name \in DOMAIN values => ret = Some(values[self.name])
        /\ self.name \notin DOMAIN values => ret = None

C3_Witness ==
    /\ pc = "ret"
    /\ self = Variable("a")
    /\ "a" \in DOMAIN values
    /\ values["a"] = Variable("b")
    /\ "b" \in DOMAIN values
    /\ ret = Some(Variable("b"))

C3_WitnessUnbound ==
    pc = "ret" /\ self.tag = "Variable" /\ IsUnboundVariable(self) /\ ret = None

\* {foo: "hi", bar: [null, 1]}
ScenarioAResult ==
    parsed_object(<<
        <<unlocated("foo"), unlocated(Scalar(StrScalar("hi")))>>,
        <<unlocated("bar"), unlocated(list(<<Null, Scalar(IntScalar(1))>>))>> >>)

\* {bar: [null, 1]}
ScenarioBResult ==
    parsed_object(<<
        <<unlocated("bar"), unlocated(list(<<Null, Scalar(IntScalar(1))>>))>> >>)

\* The number of fields of o whose value is directly an unbound Variable.
UnboundFieldCount(o) ==
    Cardinality({i \in 1..Len(o) : IsUnboundVariable(o[i][2].item)})

\* C4: {foo: $a, bar: [$b, 1]} folds to {foo: "hi", bar: [null, 1]} under
\* {a: "hi"} and to {bar: [null, 1]} under no bindings.  In general a field
\* whose value is a list holding an unbound variable is kept, with Null at
\* that position of the list, while every field whose value is itself an
\* unbound variable is dropped.
C4_ListNullsObjectDrops ==
    (pc = "ret" /\ self.tag = "Object") =>
        /\ (self = ScenarioLiteral
                /\ values = [n \in {"a"} |-> Scalar(StrScalar("hi"))])
            => ret = Some(ScenarioAResult)
        /\ (self = ScenarioLiteral /\ DOMAIN values = {})
            => ret = Some(ScenarioBResult)
        /\ is_some(ret)
        /\ Len(ret.val.fields) =
                Len(self.fields) - UnboundFieldCount(self.fields)
        /\ \A i \in 1..Len(self.fields) :
            LET fv == self.fields[i][2].item
            IN  fv.tag = "List" =>
                    \E j \in 1..Len(ret.val.fields) :
                        LET rv == ret.val.fields[j][2].item
                        IN  /\ ret.val.fields[j][1].item = self.fields[i][1].item
                            /\ rv.tag = "List"
                            /\ Len(rv.items) = Len(fv.items)
                            /\ \A k \in 1..Len(fv.items) :
                                IsUnboundVariable(fv.items[k].item)
                                    => rv.items[k].item = Null

C4_Witness ==
    /\ pc = "ret"
    /\ self = ScenarioLiteral
    /\ DOMAIN values = {}
    /\ ret = Some(ScenarioBResult)

\* C5 as stated: whenever folding returns Some(r), r holds no Variable at
\* any depth, whatever the binding map.
C5_FoldedIsVariableFree ==
    (pc = "ret" /\ is_some(ret)) => referenced_variables(ret.val) = <<>>

\* Every value the map binds is free of variables.
BindsConstants ==
    \A n \in DOMAIN values : referenced_variables(values[n]) = <<>>

\* C5, amended: whenever the binding map binds only variable-free values
\* and folding returns Some(r), r holds no Variable at any depth.
C5_FoldedIsVariableFreeUnderConstants ==
    (pc = "ret" /\ is_some(ret) /\ BindsConstants)
        => referenced_variables(ret.val) = <<>>

C5_Witness ==
    /\ pc = "ret"
    /\ BindsConstants
    /\ DOMAIN values = {"a"}
    /\ referenced_variables(self) = <<"b", "a">>
    /\ is_some(ret)
    /\ referenced_variables(ret.val) = <<>>

\* C6: folding a value that references no variable returns Some of the
\* same value, whatever the bindings.
C6_VariableFreeFoldIsNoOp ==
    (pc = "ret" /\ referenced_variables(self) = <<>>) => ret = Some(self)

C6_Witness ==
    /\ pc = "ret"
    /\ self.tag = "Object"
    /\ Len(self.fields) = 2
    /\ self.fields[1][2].item = Null
    /\ self.fields[2][2].span # NoSpan
    /\ referenced_variables(self) = <<>>
    /\ DOMAIN values = Names
    /\ ret = Some(self)

\* C7: folding a List or an Object always returns Some, an all-Null list of
\* the same length or an empty object when every element or field value is
\* an unbound variable; None is returned only when the folded value is
\* itself an unbound Variable.
C7_OnlyUnboundVariableGivesNone ==
    pc = "ret" =>
        /\ self.tag \in {"List", "Object"} => is_some(ret)
        /\ ret = None => IsUnboundVariable(self)
        /\ (self.tag = "List"
                /\ \A i \in 1..Len(self.items) :
                        IsUnboundVariable(self.items[i].item))
            => /\ Len(ret.val.items) = Len(self.items)
               /\ \A i \in 1..Len(self.items) : ret.val.items[i].item = Null
        /\ (self.tag = "Object"
                /\ \A i \in 1..Len(self.fields) :
                        IsUnboundVariable(self.fields[i][2].item))
            => ret = Some(Object(<<>>))

C7_Witness ==
    /\ pc = "ret"
    /\ self.tag = "List"
    /\ Len(self.items) = 2
    /\ \A i \in 1..2 : IsUnboundVariable(self.items[i].item)
    /\ ret = Some(list(<<Null, Null>>))

(***************************************************************************)
(* Properties of unlocated_eq                                              *)
(***************************************************************************)
\* The sequence s in reverse order.
Reversed(s) == [i \in 1..Len(s) |-> s[Len(s) + 1 - i]]

\* C8: unlocated_eq on two Lists is true if and only if the lists have the
\* same length and their elements are pairwise unlocated_eq in order.
C8_ListEqIffSameLengthAndPairwise ==
    (pc = "ret" /\ self.tag = "List" /\ other.tag = "List") =>
        (ret <=>
            /\ Len(self.items) = Len(other.items)
            /\ \A i \in 1..Len(self.items) :
                unlocated_eq(self.items[i].item, other.items[i].item))

\* C9: unlocated_eq on two Objects is true if and only if they have the
\* same number of entries and every entry of the left one has at least one
\* entry of the right one with an equal key and an unlocated_eq value; the
\* order of the entries does not matter.
C9_ObjectEqIsAnyMatch ==
    (pc = "ret" /\ self.tag = "Object" /\ other.tag = "Object") =>
        /\ ret <=>
            /\ Len(self.fields) = Len(other.fields)
            /\ \A i \in 1..Len(self.fields) :
                \E j \in 1..Len(other.fields) :
                    /\ self.fields[i][1].item = other.fields[j][1].item
                    /\ unlocated_eq(self.fields[i][2].item,
                                    other.fields[j][2].item)
        /\ ret = unlocated_eq(self, Object(Reversed(other.fields)))
        /\ ret = unlocated_eq(Object(Reversed(self.fields)), other)

\* Equal although the second left entry and the second right entry match
\* nothing of each other: {foo: 1, foo: 1} against {foo: 1, foo: 2}.
C9_Witness ==
    /\ pc = "ret"
    /\ self.tag = "Object"
    /\ other.tag = "Object"
    /\ ret = TRUE
    /\ Len(self.fields) = 2
    /\ Len(other.fields) = 2
    /\ self.fields[1][1].item = self.fields[2][1].item
    /\ \E j \in 1..2 :
        \A i \in 1..2 :
            ~unlocated_eq(self.fields[i][2].item, other.fields[j][2].item)

\* C10: on leaves, Null equals Null, two Scalars are equal iff the scalars
\* are, two Enums iff their names are, two Variables iff their names are;
\* values of different variants are never equal.
C10_LeafEqAndCrossVariant ==
    pc = "ret" =>
        /\ self.tag # other.tag => ret = FALSE
        /\ (self.tag = "Null" /\ other.tag = "Null") => ret = TRUE
        /\ (self.tag = "Scalar" /\ other.tag = "Scalar")
            => (ret <=> self.s = other.s)
        /\ (self.tag = "Enum" /\ other.tag = "Enum")
            => (ret <=> self.name = other.name)
        /\ (self.tag = "Variable" /\ other.tag = "Variable")
            => (ret <=> self.name = other.name)

C10_Witness ==
    /\ pc = "ret"
    /\ self = Enum("a")
    /\ other = Variable("a")
    /\ ret = FALSE

C10_WitnessNullEmpty ==
    pc = "ret" /\ self = Null /\ other = list(<<>>) /\ ret = FALSE

RECURSIVE Unlocate(_)

\* The value v with every span removed.
Unlocate(v) ==
    CASE v.tag = "List" ->
            list([i \in 1..Len(v.items) |-> Unlocate(v.items[i].item)])
      [] v.tag = "Object" ->
            parsed_object([i \in 1..Len(v.fields) |->
                <<unlocated(v.fields[i][1].item),
                  unlocated(Unlocate(v.fields[i][2].item))>>])
      [] OTHER -> v

\* C11: unlocated_eq ignores position.  Two values of the same structure
\* that differ only in the spans of list elements, object keys or object
\* values (present or absent) compare equal, and the result is the one the
\* two values give with all their spans removed.
C11_EqIgnoresSpans ==
    (pc = "ret" /\ op = "unlocated_eq") =>
        /\ Unlocate(self) = Unlocate(other) => ret = TRUE
        /\ ret = unlocated_eq(Unlocate(self), Unlocate(other))
        /\ ret = unlocated_eq(Unlocate(self), other)
        /\ ret = unlocated_eq(self, Unlocate(other))

\* A located object against the same object under other spans.
C11_Witness ==
    /\ pc = "ret"
    /\ op = "unlocated_eq"
    /\ self.tag = "Object"
    /\ Unlocate(self) = Unlocate(other)
    /\ self # other
    /\ Len(self.fields) = 2
    /\ self.fields[2][2].item.tag = "List"
    /\ self.fields[2][2].span # NoSpan
    /\ other.fields[2][2].span # NoSpan
    /\ ret = TRUE

(***************************************************************************)
(* Properties of referenced_variables                                      *)
(***************************************************************************)
RECURSIVE VariablePaths(_), NodeAt(_, _)

\* The paths from v to its Variable nodes: a path is the sequence of the
\* positions taken, in a list among its elements, in an object among its
\* field values.
VariablePaths(v) ==
    CASE v.tag = "Variable" -> {<<>>}
      [] v.tag = "List" ->
            UNION {{<<i>> \o p : p \in VariablePaths(v.items[i].item)}
                    : i \in 1..Len(v.items)}
      [] v.tag = "Object" ->
            UNION {{<<i>> \o p : p \in VariablePaths(v.fields[i][2].item)}
                    : i \in 1..Len(v.fields)}
      [] OTHER -> {}

\* The node of v at the end of path p.
NodeAt(v, p) ==
    IF p = <<>> THEN v
    ELSE IF v.tag = "List" THEN NodeAt(v.items[Head(p)].item, Tail(p))
    ELSE NodeAt(v.fields[Head(p)][2].item, Tail(p))

\* Path p comes before path q in a depth-first, left-to-right traversal
\* (neither is a prefix of the other: both end at a leaf).
Precedes(p, q) ==
    \E k \in 1..Min(Len(p), Len(q)) :
        /\ p[k] < q[k]
        /\ \A j \in 1..(k - 1) : p[j] = q[j]

\* C12: referenced_variables lists one name per Variable node reachable
\* through list elements and object field values, in depth-first
\* left-to-right order and without deduplication; it is [name] for
\* Variable(name) and [] for Null, Scalar and Enum, and no key is listed.
C12_ReferencedVariablesIsTraversal ==
    (pc = "ret" /\ op = "referenced_variables") =>
        LET paths == VariablePaths(self)
        IN  /\ Len(ret) = Cardinality(paths)
            /\ \A p \in paths :
                ret[1 + Cardinality({q \in paths : Precedes(q, p)})]
                    = NodeAt(self, p).name
            /\ self.tag = "Variable" => ret = <<self.name>>
            /\ self.tag \in {"Null", "Scalar", "Enum"} => ret = <<>>
            /\ \A i \in 1..Len(ret) : ret[i] \notin Keys

\* {k: $b, k: $b} and [$b, $b] list b twice; {k: [$b]} goes two levels down.
C12_Witness ==
    /\ pc = "ret"
    /\ op = "referenced_variables"
    /\ self.tag = "Object"
    /\ Len(self.fields) = 2
    /\ ret = <<"b", "b">>

C12_WitnessOrder ==
    /\ pc = "ret"
    /\ op = "referenced_variables"
    /\ self.tag = "List"
    /\ ret = <<"b", "a">>

(***************************************************************************)
(* Properties of type literals                                             *)
(***************************************************************************)
\* C13: innermost_name returns the name of the named type found by
\* unwrapping every List and NonNullList, at any nesting depth; name
\* returns that name only for a Named or NonNullNamed, and None for a list.
C13_InnermostNameIsLeafName ==
    pc = "ret" =>
        /\ op = "innermost_name" =>
                \A leaf \in NamedTypes, w \in Wrappers :
                    self = Wrapped(leaf, w) => ret = leaf.name
        /\ op = "name" =>
                \A leaf \in NamedTypes, w \in Wrappers :
                    self = Wrapped(leaf, w) =>
                        ret = IF w = <<>> THEN Some(leaf.name) ELSE None

C13_Witness ==
    /\ pc = "ret"
    /\ op = "innermost_name"
    /\ self.tag = "List"
    /\ self.inner.tag = "NonNullList"
    /\ self.inner.inner.tag = "NonNullNamed"
    /\ ret = "String"

\* C14: is_non_null is true if and only if the outermost variant is
\* NonNullNamed or NonNullList, whatever the types inside.
C14_NonNullIsOutermost ==
    (pc = "ret" /\ op = "is_non_null") =>
        /\ ret <=> self.tag \in {"NonNullNamed", "NonNullList"}
        /\ \A leaf \in NamedTypes, w \in Wrappers :
            self = Wrapped(leaf, w) =>
                (ret <=> IF w = <<>> THEN leaf.tag = "NonNullNamed"
                         ELSE w[Len(w)][1])

\* List(NonNullNamed(n)) is not non-null.
C14_Witness ==
    /\ pc = "ret"
    /\ op = "is_non_null"
    /\ self.tag = "List"
    /\ self.inner.tag = "NonNullNamed"
    /\ ret = FALSE

C14_WitnessNonNullList ==
    /\ pc = "ret"
    /\ op = "is_non_null"
    /\ self.tag = "NonNullList"
    /\ self.inner.tag = "Named"
    /\ ret = TRUE

RECURSIVE Brackets(_, _), WithoutHints(_)

\* The text t inside the brackets of the wrappers w: "[" t "]" for a
\* nullable list, "[" t "]!" for a non-null one.
Brackets(t, w) ==
    IF w = <<>> THEN t
    ELSE Brackets("[" \o t \o (IF Head(w)[1] THEN "]!" ELSE "]"), Tail(w))

\* The type t with no size hint on any list.
WithoutHints(t) ==
    CASE t.tag = "List" -> TypeList(WithoutHints(t.inner), None)
      [] t.tag = "NonNullList" -> NonNullList(WithoutHints(t.inner), None)
      [] OTHER -> t

\* C15: a type literal renders as n, n!, [T] or [T]! with T the rendering
\* of the wrapped type; the size hints do not change the text, and the text
\* ends with "!" exactly when is_non_null is true.
C15_TypeRendering ==
    (pc = "ret" /\ op = "fmt" /\ self \in TypeLiterals) =>
        /\ ret.status = "ok"
        /\ \A leaf \in NamedTypes, w \in Wrappers :
            self = Wrapped(leaf, w) =>
                ret.text =
                    Brackets(IF leaf.tag = "Named" THEN leaf.name
                             ELSE leaf.name \o "!", w)
        /\ ret = type_fmt(WithoutHints(self))
        /\ SubSeq(ret.text, Len(ret.text), Len(ret.text)) = "!"
                <=> is_non_null(self)

C15_Witness ==
    /\ pc = "ret"
    /\ op = "fmt"
    /\ self = NonNullList(TypeList(NonNullNamed("Int"), Some(2)), None)
    /\ ret.text = "[[Int!]]!"

(***************************************************************************)
(* Properties of the rendering of an input value                           *)
(***************************************************************************)
RECURSIVE Join(_), Render(_), Separators(_)

\* The texts of ts with ", " between two neighbours.
Join(ts) ==
    IF Len(ts) = 0 THEN ""
    ELSE IF Len(ts) = 1 THEN ts[1]
    ELSE ts[1] \o ", " \o Join(Tail(ts))

\* The rendering of v as the sentence of C16 defines it.
Render(v) ==
    CASE v.tag = "Null" -> "null"
      [] v.tag = "Scalar" -> fmt_scalar(v.s).text
      [] v.tag = "Enum" -> v.name
      [] v.tag = "Variable" -> "$" \o v.name
      [] v.tag = "List" ->
            "[" \o Join([i \in 1..Len(v.items) |-> Render(v.items[i].item)])
                \o "]"
      [] v.tag = "Object" ->
            "{" \o Join([i \in 1..Len(v.fields) |->
                            v.fields[i][1].item \o ": "
                                \o Render(v.fields[i][2].item)])
                \o "}"

\* The number of places where s occurs in the text t.
Occurrences(t, s) ==
    Cardinality({i \in 1..(Len(t) - Len(s) + 1) : SubSeq(t, i, i + Len(s) - 1) = s})

Sum(f) ==
    LET upto[i \in 0..Len(f)] == IF i = 0 THEN 0 ELSE upto[i - 1] + f[i]
    IN  upto[Len(f)]

\* n - 1 for every list or object of n >= 1 entries inside v, added up.
Separators(v) ==
    CASE v.tag = "List" ->
            (IF Len(v.items) = 0 THEN 0 ELSE Len(v.items) - 1)
            + Sum([i \in 1..Len(v.items) |-> Separators(v.items[i].item)])
      [] v.tag = "Object" ->
            (IF Len(v.fields) = 0 THEN 0 ELSE Len(v.fields) - 1)
            + Sum([i \in 1..Len(v.fields) |-> Separators(v.fields[i][2].item)])
      [] OTHER -> 0

\* C16: Null renders as null, an enum as its name, a variable as $ and its
\* name, a scalar as the scalar renders itself, a list as its elements
\* between [ and ] and an object as its key: value entries between { and },
\* joined by ", ": n - 1 separators for n entries, none trailing, entries in
\* storage order, every entry of a repeated key rendered.
C16_InputValueRendering ==
    (pc = "ret" /\ op = "fmt" /\ self \in ValueInputs) =>
            /\ ret = Written(Render(self))
            /\ Occurrences(ret.text, ", ") = Separators(self)
            /\ Occurrences(ret.text, ", ]") = 0
            /\ Occurrences(ret.text, ", }") = 0
            /\ self = ScenarioObject => ret.text = "{foo: 1, bar: 2}"
            /\ self = ScenarioList => ret.text = "[1, 2]"
            /\ self = Variable("a") => ret.text = "$a"
            /\ self = Null => ret.text = "null"
            /\ self = Enum("a") => ret.text = "a"
            /\ self = Scalar(StrScalar("FOO")) => ret.text = "\"FOO\""

\* Scenario C.
C16_Witness ==
    /\ pc = "ret"
    /\ op = "fmt"
    /\ self = ScenarioObject
    /\ ret = Written("{foo: 1, bar: 2}")

\* A repeated key: both entries are rendered, in storage order.
C16_WitnessDuplicateKey ==
    /\ pc = "ret"
    /\ op = "fmt"
    /\ self.tag = "Object"
    /\ ret = Written("{foo: $a, foo: null}")

\* C17: no operation panics, whatever the shape of the value: rendering
\* ends without a panic, an empty list renders as [] and an empty object as
\* {} (the unsigned len() - 1 is not evaluated for them), and into_const,
\* unlocated_eq, referenced_variables, to_object_value and to_list_value
\* return a value for every variant.
C17_NoOperationPanics ==
    pc = "ret" =>
        /\ op = "fmt" =>
            /\ ret.status = "ok"
            /\ (self.tag = "List" /\ Len(self.items) = 0) => ret.text = "[]"
            /\ (self.tag = "Object" /\ Len(self.fields) = 0) => ret.text = "{}"
        /\ op \in {"into_const", "to_object_value", "to_list_value"} =>
            ret.tag \in {"None", "Some"}
        /\ op = "unlocated_eq" => ret \in BOOLEAN
        /\ op = "referenced_variables" => ret \in Seq(Names)

C17_Witness ==
    /\ pc = "ret"
    /\ op = "fmt"
    /\ self = list(<<>>)
    /\ ret = Written("[]")

C17_WitnessEmptyObject ==
    /\ pc = "ret"
    /\ op = "fmt"
    /\ self = parsed_object(<<>>)
    /\ ret = Written("{}")

\* An empty list inside a list.
C17_WitnessNested ==
    /\ pc = "ret"
    /\ op = "fmt"
    /\ ret = Written("[[], null]")

(***************************************************************************)
(* Properties of the views                                                 *)
(***************************************************************************)
ViewMatchesVariant ==
    pc = "ret" =>
        /\ op = "to_object_value" => (is_some(ret) <=> self.tag = "Object")
        /\ op = "to_list_value" =>
            /\ is_some(ret) <=> self.tag = "List"
            /\ is_some(ret) =>
                /\ Len(ret.val) = Len(self.items)
                /\ \A i \in 1..Len(self.items) : ret.val[i] = self.items[i].item

\* C18: to_object_value returns Some exactly for an Object and
\* to_list_value exactly for a List, the list view having the length and
\* the order of the elements; neither call changes the value.
C18_ViewsMatchVariantAndKeepValue ==
    /\ []ViewMatchesVariant
    /\ [][op' \in {"to_object_value", "to_list_value"} => self' = self]_vars

C18_Witness ==
    /\ pc = "ret"
    /\ op = "to_list_value"
    /\ self = Located(list(<<Variable("b"), Null>>))
    /\ self.items[1].span # NoSpan
    /\ ret = Some(<<Variable("b"), Null>>)

C18_WitnessObject ==
    /\ pc = "ret"
    /\ op = "to_object_value"
    /\ self = ScenarioObject
    /\ is_some(ret)

C18_WitnessNone ==
    /\ pc = "ret"
    /\ op = "to_object_value"
    /\ self.tag = "List"
    /\ ret = None

(***************************************************************************)
(* Properties of Arguments                                                 *)
(***************************************************************************)
\* The positions of the entries of self whose name is n.
EntriesNamed(n) == {i \in 1..Len(self.items) : self.items[i][1].item = n}

\* C19: get(key) returns the value of the first entry, in storage order,
\* whose name is key, and None when no entry has that name; a later entry
\* of a repeated name is never returned; len counts every entry, the
\* repeated names included.
C19_GetIsFirstMatch ==
    pc = "ret" =>
        /\ op = "get" =>
            /\ EntriesNamed(key) = {} <=> ret = None
            /\ \A i \in EntriesNamed(key) :
                (\A j \in EntriesNamed(key) : i <= j) <=> ret = Some(self.items[i][2])
        /\ op = "len" =>
            /\ ret = Cardinality(EntriesNamed("a")) + Cardinality(EntriesNamed("b"))
            /\ ret = Cardinality(DOMAIN self.items)

\* The name is there twice, with two values.
C19_Witness ==
    /\ pc = "ret"
    /\ op = "get"
    /\ Len(self.items) = 2
    /\ EntriesNamed(key) = {1, 2}
    /\ self.items[1][2].item # self.items[2][2].item
    /\ ret = Some(self.items[1][2])

C19_WitnessLen ==
    /\ pc = "ret"
    /\ op = "len"
    /\ EntriesNamed("a") = {1, 2}
    /\ ret = 2

C19_WitnessAbsent ==
    /\ pc = "ret"
    /\ op = "get"
    /\ Len(self.items) = 2
    /\ key = "c"
    /\ ret = None

(***************************************************************************)
(* Properties of FromInputValue                                            *)
(***************************************************************************)
\* C20: for an implementer that does not override it, from_implicit_null
\* returns the result, Ok or Err, that from_input_value returns for
\* InputValue::Null, whatever the implementer answers for other values.
C20_ImplicitNullIsExplicitNull ==
    (pc = "ret" /\ op = "from_implicit_null") =>
        /\ ret = self[Null]
        /\ \A v \in OneOfEach :
            (v = Null /\ ret.tag = "Ok") => from_input_value(self, v) = Ok(ret.val)
        /\ \A v \in OneOfEach :
            (v = Null /\ ret.tag = "Err") => from_input_value(self, v) = Err(ret.err)

\* The implementer refuses null and accepts everything else.
C20_Witness ==
    /\ pc = "ret"
    /\ op = "from_implicit_null"
    /\ \A v \in OneOfEach \ {Null} : self[v] = Ok(1)
    /\ ret = Err("expected")

\* The implementer accepts null as one value and an empty list as another.
C20_WitnessOk ==
    /\ pc = "ret"
    /\ op = "from_implicit_null"
    /\ self[list(<<>>)] = Ok(1)
    /\ ret = Ok(2)

(***************************************************************************)
(* Properties of IntoInputValue                                            *)
(***************************************************************************)
InputValueTags == {"Null", "Scalar", "Enum", "Variable", "List", "Object"}

RECURSIVE Peel(_)

\* What is inside the Some wrappers of x.
Peel(x) == IF x.tag = "Some" THEN Peel(x.val) ELSE x

\* C21: an Option converts None to Null and Some(v) to what v converts to;
\* an InputValue converts to itself.
C21_OptionConversion ==
    (pc = "ret" /\ op = "into_input_value") =>
        /\ self = None => ret = Null
        /\ self.tag = "Some" => ret = into_input_value(self.val)
        /\ self.tag \in InputValueTags => ret = self
        /\ Peel(self).tag \in InputValueTags => ret = Peel(self)
        /\ Peel(self) = None => ret = Null
        /\ Peel(self).tag = "i32" => ret = Scalar(IntScalar(Peel(self).v))
        /\ ret.tag \in InputValueTags

\* An Option in an Option around a list.
C21_Witness ==
    /\ pc = "ret"
    /\ op = "into_input_value"
    /\ self.tag = "Some"
    /\ self.val.tag = "Some"
    /\ self.val.val.tag = "List"
    /\ Len(self.val.val.items) = 1
    /\ ret = self.val.val

C21_WitnessNone ==
    /\ pc = "ret"
    /\ op = "into_input_value"
    /\ self = Some(None)
    /\ ret = Null

(***************************************************************************)
(* Properties of interleaved folds                                         *)
(***************************************************************************)
\* Every fold that has run holds what into_const gives for its map, and two
\* folds of the same map hold the same result, whichever ran first.
FoldsAreIndependent ==
    \A f \in Folds :
        pc[f] = "ret" =>
            /\ ret[f] = into_const(self, values[key[f]])
            /\ \A g \in Folds :
                (pc[g] = "ret" /\ key[g] = key[f]) => ret[g] = ret[f]

C22_WitnessTwoMaps ==
    /\ \A f \in Folds : pc[f] = "ret"
    /\ key["f1"] # key["f2"]
    /\ self = Variable("a")
    /\ ret["f1"] = None
    /\ ret["f2"] = Some(Null)

(***************************************************************************)
(* Properties of the LocalTime adapter                                     *)
(***************************************************************************)
\* The text s is HH:mm:ss, HH:mm or HH:mm:ss.SSS of a time of the day.
IsLocalTimeText(s) ==
    /\ Len(s) \in {5, 8, 12}
    /\ AllDigits(SubSeq(s, 1, 2)) /\ Number(SubSeq(s, 1, 2)) <= 23
    /\ SubSeq(s, 3, 3) = ":"
    /\ AllDigits(SubSeq(s, 4, 5)) /\ Number(SubSeq(s, 4, 5)) <= 59
    /\ Len(s) >= 8 =>
        /\ SubSeq(s, 6, 6) = ":"
        /\ AllDigits(SubSeq(s, 7, 8)) /\ Number(SubSeq(s, 7, 8)) <= 59
    /\ Len(s) = 12 => SubSeq(s, 9, 9) = "." /\ AllDigits(SubSeq(s, 10, 12))

\* C24: from_input accepts a text if and only if the whole of it is
\* HH:mm:ss, HH:mm or HH:mm:ss.SSS (three fraction digits, hour at most
\* 23); when the three attempts fail the error is that of the last one, of
\* the full format, after "Invalid 'LocalTime': ".
C24_LocalTimeFromInput ==
    (pc = "ret" /\ op = "from_input") =>
        /\ ret.tag = "Ok" <=> IsLocalTimeText(key)
        /\ key \in LocalTimeCorrectInputs => ret.tag = "Ok"
        /\ key \in LocalTimeInvalidInputs => ret.tag = "Err"
        /\ ret.tag = "Ok" =>
            /\ ret.val.hour = Number(SubSeq(key, 1, 2))
            /\ ret.val.minute = Number(SubSeq(key, 4, 5))
            /\ ret.val.second = IF Len(key) >= 8 THEN Number(SubSeq(key, 7, 8)) ELSE 0
            /\ ret.val.nanosecond =
                IF Len(key) = 12 THEN 1000000 * Number(SubSeq(key, 10, 12)) ELSE 0
        /\ ret.tag = "Err" =>
            ret.err = "Invalid 'LocalTime': " \o parse(key, LOCAL_TIME_FORMAT).err

\* Two fraction digits: the short formats see text left over, the full one
\* cannot read its fraction, and that is the error returned.
C24_Witness ==
    /\ pc = "ret"
    /\ op = "from_input"
    /\ key = "23:18:22.03"
    /\ parse(key, FORMAT_NO_MILLIS).err # parse(key, LOCAL_TIME_FORMAT).err
    /\ ret = Err("Invalid 'LocalTime': the 'subsecond' component could not be parsed")

C24_WitnessNoSeconds ==
    /\ pc = "ret"
    /\ op = "from_input"
    /\ key = "14:32"
    /\ ret = Ok(Time(14, 32, 0, 0))

C24_WitnessHour24 ==
    /\ pc = "ret"
    /\ op = "from_input"
    /\ key = "24:00:00.000"
    /\ ret.tag = "Err"

\* C25: to_output renders HH:mm:ss when the millisecond of the time is 0
\* and HH:mm:ss.SSS otherwise, three fraction digits with what is finer cut
\* off; it never renders HH:mm, and from_input accepts what it renders.
C25_LocalTimeToOutput ==
    (pc = "ret" /\ op = "to_output") =>
        LET hms == Padded(self.hour, 2) \o ":" \o Padded(self.minute, 2)
                       \o ":" \o Padded(self.second, 2)
        IN  /\ self.nanosecond < 1000000 => ret = hms
            /\ self.nanosecond >= 1000000 =>
                ret = hms \o "." \o Padded(self.nanosecond \div 1000000, 3)
            /\ Len(ret) \in {8, 12}
            /\ self = Time(1, 2, 3, 4005000) => ret = "01:02:03.004"
            /\ self = Time(0, 0, 0, 0) => ret = "00:00:00"
            /\ local_time_from_input(ret) =
                Ok([self EXCEPT !.nanosecond = (@ \div 1000000) * 1000000])

\* local_time_test::formats_correctly: 1:02:03.004_005.
C25_Witness ==
    /\ pc = "ret"
    /\ op = "to_output"
    /\ self = Time(1, 2, 3, 4005000)
    /\ ret = "01:02:03.004"

\* Half a millisecond and nothing else: the short form.
C25_WitnessSubMillisecond ==
    /\ pc = "ret"
    /\ op = "to_output"
    /\ self = Time(14, 0, 0, 500000)
    /\ ret = "14:00:00"

(***************************************************************************)
(* Properties of the DateTime adapter                                      *)
(***************************************************************************)
\* The leap years from year 0 to the year before y.
LeapYearsBefore(y) ==
    IF y = 0 THEN 0 ELSE 1 + (y - 1) \div 4 - (y - 1) \div 100 + (y - 1) \div 400

\* The days of the year of dt that lie before its month.
DaysBeforeMonth(dt) ==
    LET upto[m \in 0..12] ==
            IF m = 0 THEN 0 ELSE upto[m - 1] + days_in_month(dt.year, m)
    IN  upto[dt.month - 1]

\* The instant of dt: the days from the start of year 0 at UTC and the
\* seconds of the day at UTC.
Instant(dt) ==
    LET days == 365 * dt.year + LeapYearsBefore(dt.year) + DaysBeforeMonth(dt)
                    + dt.day - 1
        at == dt.hour * 3600 + dt.minute * 60 + dt.second - dt.offset
    IN  <<days + at \div 86400, at % 86400>>

\* dt is a date of the calendar and a time of the day.
IsDateTime(dt) ==
    /\ dt.month \in 1..12
    /\ dt.day \in 1..days_in_month(dt.year, dt.month)
    /\ dt.hour \in 0..23 /\ dt.minute \in 0..59 /\ dt.second \in 0..59

\* C26: DateTime goes to UTC both ways: from_input gives the instant of
\* an accepted text at offset UTC, and to_output renders the instant of
\* the value at UTC, with Z, whatever the offset of the value, so the
\* instant is kept and the offset is not.
C26_DateTimeNormalisesToUtc ==
    pc = "ret" =>
        /\ (op = "from_input" /\ ret.tag = "Ok") =>
            /\ ret.val.offset = UTC
            /\ IsDateTime(ret.val)
            /\ Instant(ret.val) = Instant(rfc3339_parse(key).val)
            /\ ret.val.nanosecond = rfc3339_parse(key).val.nanosecond
        /\ op = "from_input" =>
            /\ key \in DateTimeCorrectInputs \cup DateTimeRollingInputs => ret.tag = "Ok"
            /\ key \in DateTimeInvalidInputs => ret.tag = "Err"
            /\ key = "2014-11-28T21:00:09.05+09:00" =>
                ret = Ok(OffsetDateTime(2014, 11, 28, 12, 0, 9, 50000000, UTC))
        /\ op = "to_output" =>
            /\ From(ret, Len(ret)) = "Z"
            /\ rfc3339_parse(ret).tag = "Ok"
            /\ rfc3339_parse(ret).val.offset = UTC
            /\ Instant(rfc3339_parse(ret).val) = Instant(self)
            /\ rfc3339_parse(ret).val.nanosecond = self.nanosecond
            /\ self = OffsetDateTime(1564, 1, 30, 14, 0, 0, 0, 32400) =>
                ret = "1564-01-30T05:00:00Z"

\* date_time_test::formats_correctly: 14:00 at +09:00.
C26_Witness ==
    /\ pc = "ret"
    /\ op = "to_output"
    /\ self = OffsetDateTime(1564, 1, 30, 14, 0, 0, 0, 32400)
    /\ ret = "1564-01-30T05:00:00Z"

\* The conversion goes back over the end of a year.
C26_WitnessFromInput ==
    /\ pc = "ret"
    /\ op = "from_input"
    /\ key = "2015-01-01T00:30:00+01:00"
    /\ ret = Ok(OffsetDateTime(2014, 12, 31, 23, 30, 0, 0, UTC))

\* The conversion goes on over the end of February of a leap year.
C26_WitnessLeapDay ==
    /\ pc = "ret"
    /\ op = "to_output"
    /\ self = OffsetDateTime(2016, 2, 29, 16, 39, 57, 4005000, -28800)
    /\ ret = "2016-03-01T00:39:57.004005Z"

(***************************************************************************)
(* Properties of the conversions of the scalars                            *)
(***************************************************************************)
\* PartialEq of the scalar of x: a LocalTime by its fields, a DateTime by
\* its instant.
SameValue(x, v) ==
    IF x.scalar = "LocalTime" THEN v = x.v
    ELSE Instant(v) = Instant(x.v) /\ v.nanosecond = x.v.nanosecond

\* C23: to_input_value gives a value for every value of a scalar, without
\* failing, and from_input_value of it gives the value back, also for a
\* time finer than the millisecond.
C23_ToInputValueIsTotalAndLossless ==
    pc = "ret" =>
        /\ op = "to_input_value" => ret.tag = "Scalar"
        /\ op = "round_trip" => (ret.tag = "Ok" /\ SameValue(self, ret.val))

(***************************************************************************)
(* Symmetry and reflexivity of unlocated_eq                                *)
(***************************************************************************)
RECURSIVE NoDuplicateKeys(_)

\* No object of v, at any depth, has two entries of one key.
NoDuplicateKeys(v) ==
    CASE v.tag = "List" ->
            \A i \in 1..Len(v.items) : NoDuplicateKeys(v.items[i].item)
      [] v.tag = "Object" ->
            /\ \A i, j \in 1..Len(v.fields) :
                v.fields[i][1].item = v.fields[j][1].item => i = j
            /\ \A i \in 1..Len(v.fields) : NoDuplicateKeys(v.fields[i][2].item)
      [] OTHER -> TRUE

\* C27: for two values with no repeated key in any object, unlocated_eq
\* gives the same answer in both directions; and every value equals itself
\* (the scalars of the model are equal to themselves).
C27_EqIsSymmetricAndReflexive ==
    (pc = "ret" /\ op = "unlocated_eq") =>
        /\ (NoDuplicateKeys(self) /\ NoDuplicateKeys(other)) =>
                ret = unlocated_eq(other, self)
        /\ self = other => ret = TRUE
        /\ unlocated_eq(other, other)

\* Two objects that hold the same object with its entries in two orders.
C27_Witness ==
    /\ pc = "ret"
    /\ op = "unlocated_eq"
    /\ self.tag = "Object" /\ other.tag = "Object"
    /\ Len(self.fields) = 2 /\ Len(other.fields) = 2
    /\ self.fields[1][2].item = TwoFields("foo", "bar")
    /\ other.fields[2][2].item = TwoFields("bar", "foo")
    /\ NoDuplicateKeys(self) /\ NoDuplicateKeys(other)
    /\ self # other
    /\ ret = TRUE
    /\ unlocated_eq(other, self)

\* With a repeated key the two directions differ.
C27_WitnessRepeatedKey ==
    /\ pc = "ret"
    /\ op = "unlocated_eq"
    /\ ~NoDuplicateKeys(self)
    /\ NoDuplicateKeys(other)
    /\ ret = TRUE
    /\ ~unlocated_eq(other, self)

\* A value with a repeated key equals itself.
C27_WitnessReflexive ==
    /\ pc = "ret"
    /\ op = "unlocated_eq"
    /\ self = other
    /\ ~NoDuplicateKeys(self)
    /\ ret = TRUE

(***************************************************************************)
(* Properties of the object view                                           *)
(***************************************************************************)
\* The keys of the entries of self.
KeysOfSelf == {self.fields[i][1].item : i \in 1..Len(self.fields)}

\* The position of the first entry of key k in self, and of the last.
FirstOf(k) ==
    CHOOSE i \in 1..Len(self.fields) :
        /\ self.fields[i][1].item = k
        /\ \A j \in 1..Len(self.fields) : self.fields[j][1].item = k => i <= j

LastOf(k) ==
    CHOOSE i \in 1..Len(self.fields) :
        /\ self.fields[i][1].item = k
        /\ \A j \in 1..Len(self.fields) : self.fields[j][1].item = k => j <= i

C28_WitnessNoRepeat ==
    /\ pc = "ret"
    /\ op = "to_object_value"
    /\ self = ScenarioObject
    /\ ret = Some(<<<<"foo", Scalar(IntScalar(1))>>, <<"bar", Scalar(IntScalar(2))>>>>)

(***************************************************************************)
(* Spans and order under into_const                                        *)
(***************************************************************************)
\* The j-th smallest member of the set S of numbers.
NthOf(S, j) == CHOOSE i \in S : Cardinality({x \in S : x <= i}) = j

RECURSIVE SpansKept(_, _)

\* `out` is a fold of `in` that kept the positions: a list has, index by
\* index, the spans of the elements of `in`; an object has some entries of
\* `in`, in their order, each with its key, key span and value span; and the
\* same holds inside the lists and objects that were folded in place.
SpansKept(in, out) ==
    CASE in.tag = "List" ->
            /\ out.tag = "List"
            /\ Len(out.items) = Len(in.items)
            /\ \A i \in 1..Len(in.items) :
                /\ out.items[i].span = in.items[i].span
                /\ in.items[i].item.tag \in {"List", "Object"} =>
                        SpansKept(in.items[i].item, out.items[i].item)
      [] in.tag = "Object" ->
            /\ out.tag = "Object"
            /\ \E S \in SUBSET (1..Len(in.fields)) :
                /\ Cardinality(S) = Len(out.fields)
                /\ \A j \in 1..Len(out.fields) :
                    LET e == in.fields[NthOf(S, j)]
                    IN  /\ out.fields[j][1] = e[1]
                        /\ out.fields[j][2].span = e[2].span
                        /\ e[2].item.tag \in {"List", "Object"} =>
                                SpansKept(e[2].item, out.fields[j][2].item)
      [] OTHER -> TRUE

\* C29: into_const keeps the positions and the order: an element of the
\* folded list has the span of the element of the same index, also when it
\* became Null, and a kept entry of an object has its key, its key span and
\* its value span, the kept entries in their order.
C29_FoldKeepsSpansAndOrder ==
    (pc = "ret" /\ op = "into_const" /\ is_some(ret)) => SpansKept(self, ret.val)

\* A located list whose unbound variable became Null under its span.
C29_Witness ==
    /\ pc = "ret"
    /\ op = "into_const"
    /\ self.tag = "List"
    /\ Len(self.items) = 2
    /\ self.items[1].item = Variable("a")
    /\ "a" \notin DOMAIN values
    /\ self.items[1].span # NoSpan
    /\ self.items[2].span # self.items[1].span
    /\ ret.val.items[1] = Spanning(Null, self.items[1].span)

\* A located object that lost its first entry: the second keeps its spans.
C29_WitnessObject ==
    /\ pc = "ret"
    /\ op = "into_const"
    /\ self.tag = "Object"
    /\ Len(self.fields) = 2
    /\ self.fields[2][1].span # NoSpan
    /\ is_some(ret)
    /\ Len(ret.val.fields) = 1
    /\ ret.val.fields[1][1] = self.fields[2][1]
    /\ ret.val.fields[1][2].span = self.fields[2][2].span

(***************************************************************************)
(* What into_const depends on                                              *)
(***************************************************************************)
\* The names self refers to.
ReferencedBySelf ==
    {referenced_variables(self)[i] : i \in 1..Len(referenced_variables(self))}

\* The maps m1 and m2 bind the same names of N, to the same values.
AgreeOn(m1, m2, N) ==
    \A n \in N :
        /\ n \in DOMAIN m1 <=> n \in DOMAIN m2
        /\ n \in DOMAIN m1 => m1[n] = m2[n]

\* C30: the result of into_const depends only on what the map binds the
\* names of referenced_variables to: a map that agrees with `values` on
\* those names gives the same result, whatever else the two maps hold.
C30_FoldDependsOnReferencedOnly ==
    (pc = "ret" /\ op = "into_const") =>
        \A m \in Bindings :
            AgreeOn(m, values, ReferencedBySelf) => into_const(self, m) = ret

\* The literal refers to a alone; a is bound to the variable b and b to a
\* text, and a map without b gives the same fold.
C30_Witness ==
    /\ pc = "ret"
    /\ op = "into_const"
    /\ ReferencedBySelf = {"a"}
    /\ self.tag = "List"
    /\ DOMAIN values = {"a", "b"}
    /\ values["a"] = Variable("b")
    /\ values["b"] = Scalar(StrScalar("hi"))
    /\ \E m \in Bindings :
        /\ m # values
        /\ AgreeOn(m, values, ReferencedBySelf)
        /\ into_const(self, m) = ret
    /\ is_some(ret)

====
